---- MODULE Spec2Model ----
(***************************************************************************)
(* Smart Meeting Assistant (assignment-2/src/server.py): the in-memory     *)
(* meeting store of SmartMeetingAssistant and the operations on it.        *)
(*                                                                         *)
(* Time.  A datetime is a record [wall, aware, off]: wall is the wall      *)
(* clock reading in seconds counted from 00:00 of day 0 (day 0 is a        *)
(* Monday), aware says whether the value carries a UTC offset, off is that *)
(* offset in seconds (0 for a naive value).  Python orders two aware       *)
(* values by their UTC instant, two naive values by their wall clock, and  *)
(* raises TypeError when one is aware and the other naive.                 *)
(*                                                                         *)
(* Numbers.  Slot scores are whole-valued floats and are kept as integers. *)
(* Effectiveness components are kept in tenths, weights in hundredths and  *)
(* overall effectiveness scores in thousandths.                            *)
(*                                                                         *)
(* Optional values.  None is the empty sequence <<>>, a present value v is *)
(* <<v>>.                                                                  *)
(***************************************************************************)
EXTENDS Integers, Sequences, FiniteSets, TLC

VARIABLES
    meetings,          \* self.meetings: the dict, in insertion order
    user_preferences,  \* self.user_preferences: user id -> UserPreferences
    now,               \* the clock read by datetime.now(timezone.utc)
    last,              \* the last tool call: its name, arguments and result
    inflight           \* the tool calls received whose handler has not run yet

vars == <<meetings, user_preferences, now, last, inflight>>

-----------------------------------------------------------------------------
(* Bounds of the model *)

\* create_meeting is explored up to this many stored meetings on top of the
\* sample data
MaxCreated == 2

\* the requests that may wait for their handler at the same time
MaxInFlight == 2

-----------------------------------------------------------------------------
(* datetime, timedelta, isoformat, fromisoformat *)

None == <<>>

Some(v) == <<v>>

SecondsPerDay == 24 * 3600

DT(wall, aware, off) == [wall |-> wall, aware |-> aware, off |-> off]

\* an aware UTC datetime at day d, h:m:s
UTC(d, h, m, s) == DT(d * SecondsPerDay + h * 3600 + m * 60 + s, TRUE, 0)

\* a naive datetime at day d, h:m:s
Naive(d, h, m, s) == DT(d * SecondsPerDay + h * 3600 + m * 60 + s, FALSE, 0)

\* a < b and a > b are defined only between two aware or two naive values
Comparable(a, b) == a.aware = b.aware

Instant(a) == a.wall - a.off

Lt(a, b) == Instant(a) < Instant(b)

Gt(a, b) == Instant(a) > Instant(b)

\* dt + timedelta(minutes = m): the wall clock moves, the offset stays
AddMinutes(dt, m) == [dt EXCEPT !.wall = @ + 60 * m]

AddDays(dt, d) == [dt EXCEPT !.wall = @ + SecondsPerDay * d]

\* (a - b).total_seconds()
SecondsBetween(a, b) == Instant(a) - Instant(b)

DateOf(dt) == dt.wall \div SecondsPerDay

HourOf(dt) == (dt.wall % SecondsPerDay) \div 3600

\* date.weekday(): Monday = 0 ... Sunday = 6
WeekdayOfDate(d) == d % 7

WeekdayOf(dt) == WeekdayOfDate(DateOf(dt))

\* the offset suffix isoformat() writes, and the one fromisoformat() reads
TzSuffix(dt) ==
    IF ~dt.aware THEN ""
    ELSE CASE dt.off = 0 -> "+00:00"
           [] dt.off = 3600 -> "+01:00"
           [] dt.off = -18000 -> "-05:00"

SuffixOffset(tz) ==
    CASE tz = "+00:00" -> 0
      [] tz = "+01:00" -> 3600
      [] tz = "-05:00" -> -18000

\* datetime.isoformat(): date, time of day, offset suffix
isoformat(dt) ==
    [fmt |-> "iso", date |-> DateOf(dt), time |-> dt.wall % SecondsPerDay,
     tz |-> TzSuffix(dt)]

\* a string that is no ISO-8601 value
NotATime == [fmt |-> "text", date |-> 0, time |-> 0, tz |-> ""]

\* the empty string
EmptyText == [fmt |-> "empty", date |-> 0, time |-> 0, tz |-> ""]

\* datetime.fromisoformat raises ValueError on such a string
ParsesAsIso(str) == str.fmt = "iso"

\* a datetime object, as opposed to a string
IsDatetime(v) == "wall" \in DOMAIN v

\* datetime.fromisoformat(str): naive when the string has no offset suffix
fromisoformat(str) ==
    IF str.tz = ""
    THEN DT(str.date * SecondsPerDay + str.time, FALSE, 0)
    ELSE DT(str.date * SecondsPerDay + str.time, TRUE, SuffixOffset(str.tz))

-----------------------------------------------------------------------------
(* Meeting and UserPreferences *)

Meeting(id, title, participants, start_time, end_time, timezone_str, organizer, agenda, meeting_type, effectiveness_score, created_at) ==
    [id |-> id, title |-> title, participants |-> participants,
     start_time |-> start_time, end_time |-> end_time,
     timezone_str |-> timezone_str, organizer |-> organizer,
     agenda |-> agenda, location |-> None, meeting_type |-> meeting_type,
     effectiveness_score |-> effectiveness_score, created_at |-> created_at]

UserPreferences(user_id, hours, tz, max_daily, duration) ==
    [user_id |-> user_id, preferred_meeting_hours |-> hours,
     timezone_str |-> tz, max_daily_meetings |-> max_daily,
     preferred_meeting_duration |-> duration,
     break_time_between_meetings |-> 15, work_days |-> <<0, 1, 2, 3, 4>>]

\* x in list
InList(x, list) == \E i \in 1..Len(list) : list[i] = x

\* meeting_id in self.meetings
HasMeeting(ms, id) == \E i \in 1..Len(ms) : ms[i].id = id

\* the position of self.meetings[meeting_id]
IndexOf(ms, id) == CHOOSE i \in 1..Len(ms) : ms[i].id = id

-----------------------------------------------------------------------------
(* Availability and conflicts *)

\* start_time < meeting.end_time and end_time > meeting.start_time, with
\* Python's left-to-right evaluation: "TypeError" when a comparison that is
\* reached is between an aware and a naive value
OverlapTest(start_time, end_time, meeting) ==
    IF ~Comparable(start_time, meeting.end_time) THEN "TypeError"
    ELSE IF ~Lt(start_time, meeting.end_time) THEN "False"
    ELSE IF ~Comparable(end_time, meeting.start_time) THEN "TypeError"
    ELSE IF Gt(end_time, meeting.start_time) THEN "True"
    ELSE "False"

\* the loop of _is_participant_available from the i-th stored meeting on
RECURSIVE AvailableFrom(_, _, _, _, _)
AvailableFrom(ms, i, participant, start_time, end_time) ==
    IF i > Len(ms) THEN "True"
    ELSE IF ~InList(participant, ms[i].participants)
         THEN AvailableFrom(ms, i + 1, participant, start_time, end_time)
         ELSE LET t == OverlapTest(start_time, end_time, ms[i])
              IN  IF t = "TypeError" THEN "TypeError"
                  ELSE IF t = "True" THEN "False"
                  ELSE AvailableFrom(ms, i + 1, participant, start_time, end_time)

\* "True", "False", or "TypeError" when the scan raises
is_participant_available(ms, participant, start_time, end_time) ==
    AvailableFrom(ms, 1, participant, start_time, end_time)

\* max(a, b) and min(a, b) of Python: the first argument unless the second
\* is strictly greater (smaller)
MaxDT(a, b) == IF Gt(b, a) THEN b ELSE a

MinDT(a, b) == IF Lt(b, a) THEN b ELSE a

calculate_overlap_minutes(start1, end1, start2, end2) ==
    LET overlap_start == MaxDT(start1, start2)
        overlap_end == MinDT(end1, end2)
    IN  IF Lt(overlap_start, overlap_end)
        THEN SecondsBetween(overlap_end, overlap_start) \div 60
        ELSE 0

\* one entry of the conflict list
Conflict(meeting, start_time, end_time) ==
    [meeting_id |-> meeting.id,
     title |-> meeting.title,
     start_time |-> isoformat(meeting.start_time),
     end_time |-> isoformat(meeting.end_time),
     overlap_minutes |->
        calculate_overlap_minutes(start_time, end_time,
                                  meeting.start_time, meeting.end_time)]

\* ConflictsFrom without the test "user_id in meeting.participants"
RECURSIVE ConflictsOfAnyone(_, _, _, _, _, _)
ConflictsOfAnyone(ms, i, user_id, start_time, end_time, conflicts) ==
    IF i > Len(ms) THEN [raised |-> FALSE, conflicts |-> conflicts]
    ELSE IF OverlapTest(start_time, end_time, ms[i]) = "TypeError"
    THEN [raised |-> TRUE, conflicts |-> <<>>]
    ELSE ConflictsOfAnyone(
             ms, i + 1, user_id, start_time, end_time,
             IF OverlapTest(start_time, end_time, ms[i]) = "True"
             THEN Append(conflicts, Conflict(ms[i], start_time, end_time))
             ELSE conflicts)

\* the loop of detect_scheduling_conflicts from the i-th stored meeting on,
\* with the conflicts found so far: raised = TRUE when a comparison raises
RECURSIVE ConflictsFrom(_, _, _, _, _, _)
ConflictsFrom(ms, i, user_id, start_time, end_time, conflicts) ==
    IF i > Len(ms) THEN [raised |-> FALSE, conflicts |-> conflicts]
    ELSE IF ~InList(user_id, ms[i].participants)
         THEN ConflictsFrom(ms, i + 1, user_id, start_time, end_time, conflicts)
         ELSE LET t == OverlapTest(start_time, end_time, ms[i])
              IN  IF t = "TypeError"
                  THEN [raised |-> TRUE, conflicts |-> <<>>]
                  ELSE ConflictsFrom(
                           ms, i + 1, user_id, start_time, end_time,
                           IF t = "True"
                           THEN Append(conflicts,
                                       Conflict(ms[i], start_time, end_time))
                           ELSE conflicts)

Failure(error) == [success |-> FALSE, error |-> error]

detect_scheduling_conflicts(ms, user_id, time_range) ==
    LET start_time == time_range[1]
        end_time == time_range[2]
        scan == ConflictsFrom(ms, 1, user_id, start_time, end_time, <<>>)
    IN  IF ~IsDatetime(start_time) \/ ~IsDatetime(end_time)
        THEN Failure("TypeError or AttributeError")
        ELSE IF scan.raised THEN Failure("TypeError")
        ELSE [success |-> TRUE,
              user_id |-> user_id,
              time_range |-> <<isoformat(start_time), isoformat(end_time)>>,
              has_conflicts |-> Len(scan.conflicts) > 0,
              conflicts |-> scan.conflicts,
              conflict_count |-> Len(scan.conflicts)]

-----------------------------------------------------------------------------
(* Slot optimizer *)

\* SlotScore with a slot scored 0 as soon as a participant is unavailable
SlotScoreAllOrNothing(outcomes, start_time) ==
    [raised |-> \E i \in 1..Len(outcomes) : outcomes[i] = "TypeError",
     score |-> IF \A i \in 1..Len(outcomes) : outcomes[i] = "True"
               THEN 150 ELSE 0]

\* the scoring of _calculate_slot_score, given the outcome of the
\* availability check of each participant
SlotScore(outcomes, start_time) ==
    LET available_count == Cardinality({i \in 1..Len(outcomes) :
                                            outcomes[i] = "True"})
        hour == HourOf(start_time)
        weekday == WeekdayOf(start_time)
        score ==
              100 - 30 * (Len(outcomes) - available_count)
            + (IF available_count = Len(outcomes) THEN 50 ELSE 0)
            + (IF 9 <= hour /\ hour <= 16 THEN 20
               ELSE IF 8 <= hour /\ hour <= 17 THEN 10
               ELSE -20)
            - (IF 12 <= hour /\ hour < 13 THEN 15 ELSE 0)
            + (IF weekday \in {1, 2, 3} THEN 10
               ELSE IF weekday \in {0, 4} THEN 5
               ELSE 0)
    IN  [raised |-> \E i \in 1..Len(outcomes) : outcomes[i] = "TypeError",
         score |-> IF score > 0 THEN score ELSE 0]

\* _calculate_slot_score: the score, or raised = TRUE when an availability
\* check raises
calculate_slot_score(ms, participants, start_time, end_time) ==
    SlotScore(SelectSeq([i \in 1..Len(participants) |->
                            is_participant_available(ms, participants[i],
                                                     start_time, end_time)],
                        LAMBDA o : TRUE),
              start_time)

\* every requested participant listed, available or not
RequestedParticipants(ms, participants, start_time, end_time) == participants

\* _get_available_participants (called only after the score of the same
\* slot was computed, so no check in it raises)
get_available_participants(ms, participants, start_time, end_time) ==
    SelectSeq(participants,
              LAMBDA p : is_participant_available(ms, p, start_time, end_time)
                         = "True")

Scored(start_time, end_time, sc) ==
    [start_time |-> start_time, end_time |-> end_time,
     raised |-> sc.raised, score |-> sc.score]

\* one candidate of _find_day_optimal_slots with its score
Candidate(ms, participants, start_time, end_time) ==
    Scored(start_time, end_time,
           calculate_slot_score(ms, participants, start_time, end_time))

CandidateAt(ms, participants, duration, start_time) ==
    Candidate(ms, participants, start_time, AddMinutes(start_time, duration))

\* the candidates of one day in generation order: hour 8..17, minute 0, 30
DayCandidates(ms, participants, duration, date) ==
    SelectSeq([k \in 1..20 |->
                 CandidateAt(ms, participants, duration,
                             UTC(date, 8 + (k - 1) \div 2, 30 * ((k - 1) % 2), 0))],
              LAMBDA c : TRUE)

\* the dict appended for a candidate with score > 0
Slot(ms, participants, c) ==
    [start_time |-> isoformat(c.start_time),
     end_time |-> isoformat(c.end_time),
     score |-> c.score,
     available_participants |->
        get_available_participants(ms, participants, c.start_time, c.end_time)]

\* "if score > 0" over the candidates of a day
ViableSlots(ms, participants, cands) ==
    [raised |-> \E k \in 1..Len(cands) : cands[k].raised,
     slots |-> SelectSeq([k \in 1..Len(cands) |->
                             IF cands[k].score > 0 /\ ~cands[k].raised
                             THEN Some(Slot(ms, participants, cands[k]))
                             ELSE None],
                         LAMBDA o : o # None)]

Unwrap(options) == [k \in 1..Len(options) |-> options[k][1]]

DaySlots(day) == [raised |-> day.raised, slots |-> Unwrap(day.slots)]

\* _find_day_optimal_slots: the slots of the day with score > 0
find_day_optimal_slots(ms, participants, duration, date) ==
    DaySlots(ViableSlots(ms, participants,
                         DayCandidates(ms, participants, duration, date)))

\* optimal_slots.extend(day_slots)
Extend(found, day) ==
    [raised |-> day.raised, slots |-> found.slots \o day.slots]

\* the while loop of find_optimal_slots from current_date on, with the
\* slots collected so far
RECURSIVE SlotsFrom(_, _, _, _, _, _)
SlotsFrom(ms, participants, duration, current_date, end_date, found) ==
    IF current_date > end_date \/ found.raised THEN found
    ELSE SlotsFrom(ms, participants, duration, current_date + 1, end_date,
                   IF WeekdayOfDate(current_date) < 5
                   THEN Extend(found,
                               find_day_optimal_slots(ms, participants,
                                                      duration, current_date))
                   ELSE found)

SetMax(S) == CHOOSE x \in S : \A y \in S : y <= x

\* list.sort(key = score, reverse = True): a stable sort, so slots of equal
\* score keep the order they were generated in
RECURSIVE SortedFrom(_, _)
SortedFrom(slots, scores) ==
    IF scores = {} THEN <<>>
    ELSE SelectSeq(slots, LAMBDA x : x.score = SetMax(scores))
         \o SortedFrom(slots, scores \ {SetMax(scores)})

\* the list left in generation order
Unsorted(slots) == slots

SortByScoreDescending(slots) ==
    SortedFrom(slots, {slots[i].score : i \in 1..Len(slots)})

\* optimal_slots[:10]
TopSlots(slots) == SubSeq(slots, 1, IF Len(slots) < 10 THEN Len(slots) ELSE 10)

\* date_range.get("days_ahead", 7)
DaysAhead(date_range) == IF date_range = None THEN 7 ELSE date_range[1]

\* the dict find_optimal_slots returns for the sorted list
SlotsResult(participants, duration, optimal_slots) ==
    [success |-> TRUE,
     slots |-> TopSlots(optimal_slots),
     total_analyzed |-> Len(optimal_slots),
     participants |-> participants,
     duration_minutes |-> duration]

SlotsOutcome(participants, duration, scan) ==
    IF scan.raised THEN Failure("TypeError")
    ELSE SlotsResult(participants, duration, SortByScoreDescending(scan.slots))

find_optimal_slots(ms, clock, participants, duration, date_range) ==
    SlotsOutcome(participants, duration,
                 SlotsFrom(ms, participants, duration, DateOf(clock),
                           DateOf(clock) + DaysAhead(date_range),
                           [raised |-> FALSE, slots |-> <<>>]))

-----------------------------------------------------------------------------
(* create_meeting *)

\* an id generator that returns the id it returned last
ReusedId(ms) == Len(ms)

\* uuid.uuid4(): a value no earlier call returned; uuids are named by the
\* order in which they enter the store
uuid4(ms) == Len(ms) + 1

\* self.meetings[meeting_id] = meeting
PutMeeting(ms, meeting) ==
    IF HasMeeting(ms, meeting.id)
    THEN [ms EXCEPT ![IndexOf(ms, meeting.id)] = meeting]
    ELSE Append(ms, meeting)

\* participants[0] if participants else "unknown@company.com"
Organizer(participants) ==
    IF Len(participants) > 0 THEN participants[1] ELSE "unknown@company.com"

\* self.user_preferences.get(organizer, UserPreferences(organizer, (9, 17),
\* "UTC")).timezone_str
TimezoneOf(prefs, organizer) ==
    IF organizer \in DOMAIN prefs THEN prefs[organizer].timezone_str ELSE "UTC"

Raised(error, clock) == [raised |-> TRUE, error |-> error, start_time |-> clock]

StartAt(start_time) == [raised |-> FALSE, error |-> "", start_time |-> start_time]

\* lines 136-139: the start time taken from the result of find_optimal_slots
StartFromSlots(optimal_slots, clock) ==
    IF ~optimal_slots.success THEN Raised("KeyError: slots", clock)
    ELSE IF Len(optimal_slots.slots) > 0
    THEN StartAt(fromisoformat(optimal_slots.slots[1].start_time))
    ELSE StartAt(AddMinutes(AddDays(clock, 1), 600))

\* lines 129-139: the start time, or the exception raised
StartTime(ms, clock, participants, duration, preferences) ==
    IF preferences.preferred_time # None
       /\ preferences.preferred_time[1] # EmptyText
    THEN IF ParsesAsIso(preferences.preferred_time[1])
         THEN StartAt(fromisoformat(preferences.preferred_time[1]))
         ELSE Raised("ValueError", clock)
    ELSE StartFromSlots(find_optimal_slots(ms, clock, participants, duration,
                                           Some(7)),
                        clock)

\* lines 161-171: the result, given the meeting stored and the conflict report
CreateResult(meeting, conflicts) ==
    IF ~conflicts.success THEN Failure("KeyError: has_conflicts")
    ELSE [success |-> TRUE,
          meeting_id |-> meeting.id,
          meeting |-> meeting,
          conflicts |-> conflicts,
          message |-> IF ~conflicts.has_conflicts
                      THEN "Meeting created successfully"
                      ELSE "Meeting created with conflicts detected"]

\* lines 141-168: from the start time on
CreateAt(ms, prefs, clock, title, participants, duration, preferences, organizer, start_time, end_time) ==
    [meetings |->
        PutMeeting(ms, Meeting(uuid4(ms), title, participants, start_time,
                               end_time, TimezoneOf(prefs, organizer),
                               organizer, preferences.agenda, "regular", None,
                               clock)),
     result |->
        CreateResult(Meeting(uuid4(ms), title, participants, start_time,
                             end_time, TimezoneOf(prefs, organizer),
                             organizer, preferences.agenda, "regular", None,
                             clock),
                     detect_scheduling_conflicts(ms, organizer,
                                                 <<start_time, end_time>>))]

CreateFrom(ms, prefs, clock, title, participants, duration, preferences, st) ==
    IF st.raised
    THEN [meetings |-> ms, result |-> Failure(st.error)]
    ELSE CreateAt(ms, prefs, clock, title, participants, duration, preferences,
                  Organizer(participants), st.start_time,
                  AddMinutes(st.start_time, duration))

\* create_meeting: the store after the call and the result returned
create_meeting(ms, prefs, clock, title, participants, duration, preferences) ==
    CreateFrom(ms, prefs, clock, title, participants, duration, preferences,
               StartTime(ms, clock, participants, duration, preferences))

-----------------------------------------------------------------------------
(* Effectiveness scorer *)

\* DurationSeconds with the length taken in minutes
DurationInMinutes(meeting) ==
    SecondsBetween(meeting.end_time, meeting.start_time) \div 60

DurationSeconds(meeting) == SecondsBetween(meeting.end_time, meeting.start_time)

AtLeastTenths(x) == IF x < 10 THEN 10 ELSE x

\* _calculate_effectiveness_components, in tenths
calculate_effectiveness_components(meeting) ==
    LET d == DurationSeconds(meeting)
        duration_efficiency ==
            IF 30 * 60 <= d /\ d <= 60 * 60 THEN 90
            ELSE IF (15 * 60 <= d /\ d < 30 * 60) \/ (60 * 60 < d /\ d <= 90 * 60)
            THEN 70
            ELSE IF d < 15 * 60 \/ d > 120 * 60 THEN 40
            ELSE 60
        participant_count == Len(meeting.participants)
        participant_engagement ==
            IF 2 <= participant_count /\ participant_count <= 6 THEN 85
            ELSE IF participant_count <= 10 THEN 70
            ELSE 55
        agenda_adherence ==
            CASE meeting.meeting_type = "standup" -> 85
              [] meeting.meeting_type = "1on1" -> 80
              [] meeting.meeting_type = "planning" -> 75
              [] meeting.meeting_type = "review" -> 70
              [] meeting.meeting_type = "brainstorm" -> 65
              [] meeting.meeting_type = "all-hands" -> 60
              [] OTHER -> 70
        outcome_clarity ==
            IF meeting.meeting_type \in {"standup", "1on1", "review"} THEN 80
            ELSE IF d > 90 * 60 THEN 55
            ELSE 70
        start_hour == HourOf(meeting.start_time)
        by_hour == IF 9 <= start_hour /\ start_hour <= 16 THEN 80
                   ELSE IF 8 <= start_hour /\ start_hour <= 17 THEN 70
                   ELSE 50
        time_management == IF d > 120 * 60 THEN by_hour - 20 ELSE by_hour
    IN  [duration_efficiency |-> AtLeastTenths(duration_efficiency),
         participant_engagement |-> AtLeastTenths(participant_engagement),
         agenda_adherence |-> AtLeastTenths(agenda_adherence),
         outcome_clarity |-> AtLeastTenths(outcome_clarity),
         time_management |-> AtLeastTenths(time_management)]

\* the weights of score_meeting_effectiveness, in hundredths
Weights ==
    [duration_efficiency |-> 25, participant_engagement |-> 20,
     agenda_adherence |-> 20, outcome_clarity |-> 20, time_management |-> 15]

\* The products and the sum of lines 732-733 are IEEE-754 doubles. A double
\* of this computation is a natural number of units of 2^-56, written as
\* four limbs in base 2^20, least significant first.
Base == 1024 * 1024

Zero == <<0, 0, 0, 0>>

RECURSIVE Carry(_, _, _)
Carry(v, i, c) ==
    IF i > Len(v) THEN <<>>
    ELSE <<(v[i] + c) % Base>> \o Carry(v, i + 1, (v[i] + c) \div Base)

Plus(a, b) == Carry([i \in 1..4 |-> a[i] + b[i]], 1, 0)

Times(v, n) == Carry([i \in 1..4 |-> v[i] * n], 1, 0)

RECURSIVE BitsOf(_)
BitsOf(n) == IF n = 0 THEN 0 ELSE 1 + BitsOf(n \div 2)

BitLength(v) ==
    IF v[4] # 0 THEN 60 + BitsOf(v[4])
    ELSE IF v[3] # 0 THEN 40 + BitsOf(v[3])
    ELSE IF v[2] # 0 THEN 20 + BitsOf(v[2])
    ELSE BitsOf(v[1])

\* v without its r lowest bits (r < 20), rounded to nearest, ties to even
RoundBits(v, r) ==
    LET q == 2 ^ r
        rest == v[1] % q
        low == v[1] - rest
        up == rest * 2 > q \/ (rest * 2 = q /\ (low \div q) % 2 = 1)
    IN  Carry(<<low + (IF up THEN q ELSE 0), v[2], v[3], v[4]>>, 1, 0)

\* the double nearest to v: 53 significant bits
RoundToDouble(v) ==
    IF BitLength(v) <= 53 THEN v ELSE RoundBits(v, BitLength(v) - 53)

\* -1, 0 or 1 as a is below, equal to or above b
RECURSIVE CompareFrom(_, _, _)
CompareFrom(a, b, i) ==
    IF i = 0 THEN 0
    ELSE IF a[i] < b[i] THEN -1
    ELSE IF a[i] > b[i] THEN 1
    ELSE CompareFrom(a, b, i - 1)

\* half of the double that the literal of each weight denotes, in units:
\* 0.25 is 2^-2, 0.20 is 0x1.999999999999ap-3, 0.15 is 0x1.3333333333333p-3
HalfWeight ==
    [duration_efficiency |-> <<0, 0, 8192, 0>>,
     participant_engagement |-> <<629146, 629145, 6553, 0>>,
     agenda_adherence |-> <<629146, 629145, 6553, 0>>,
     outcome_clarity |-> <<629146, 629145, 6553, 0>>,
     time_management |-> <<209715, 209715, 4915, 0>>]

\* score_components[component] * weight: a component is a whole number of
\* halves, so the exact product is that number times half the weight
Product(score_components, component) ==
    RoundToDouble(Times(HalfWeight[component],
                        score_components[component] \div 5))

\* the order of weights.items()
Components ==
    <<"duration_efficiency", "participant_engagement", "agenda_adherence",
      "outcome_clarity", "time_management">>

\* sum() before Python 3.12: left to right, every partial sum rounded
RECURSIVE SequentialSum(_, _, _)
SequentialSum(score_components, i, acc) ==
    IF i > Len(Components) THEN acc
    ELSE SequentialSum(
             score_components, i + 1,
             RoundToDouble(Plus(acc, Product(score_components, Components[i]))))

\* the exact sum of the products
RECURSIVE ExactSum(_, _, _)
ExactSum(score_components, i, acc) ==
    IF i > Len(Components) THEN acc
    ELSE ExactSum(score_components, i + 1,
                  Plus(acc, Product(score_components, Components[i])))

\* sum() from Python 3.12 on: compensated summation, which on these five
\* operands returns the double nearest to their exact sum
CompensatedSum(score_components) ==
    RoundToDouble(ExactSum(score_components, 1, Zero))

\* the two ways the interpreter's sum() adds doubles
Sums == {"sequential", "compensated"}

SumOf(score_components, sum) ==
    IF sum = "sequential" THEN SequentialSum(score_components, 1, Zero)
    ELSE CompensatedSum(score_components)

\* A score is kept as [milli, err]: the decimal number of thousandths it
\* stands for, and -1, 0 or 1 as the double lies below, on or above it.
Float(milli, err) == [milli |-> milli, err |-> err]

\* the weighted sum in exact decimal arithmetic, in thousandths
DecimalSum(score_components) ==
      score_components.duration_efficiency * Weights.duration_efficiency
    + score_components.participant_engagement * Weights.participant_engagement
    + score_components.agenda_adherence * Weights.agenda_adherence
    + score_components.outcome_clarity * Weights.outcome_clarity
    + score_components.time_management * Weights.time_management

\* milli thousandths in units of 2^-56, times 1000
MilliUnits(milli) == Carry(<<0, 0, milli * 65536, 0>>, 1, 0)

\* the double v against milli thousandths
Side(v, milli) == CompareFrom(Times(v, 1000), MilliUnits(milli), 4)

\* sum(score_components[c] * weight ...)
OverallScore(score_components, sum) ==
    Float(DecimalSum(score_components),
          Side(SumOf(score_components, sum), DecimalSum(score_components)))

\* score >= milli thousandths
AtLeast(score, milli) ==
    score.milli > milli \/ (score.milli = milli /\ score.err >= 0)

\* _get_effectiveness_rating
get_effectiveness_rating(score) ==
    IF AtLeast(score, 8000) THEN "Excellent"
    ELSE IF AtLeast(score, 6000) THEN "Good"
    ELSE IF AtLeast(score, 4000) THEN "Needs Improvement"
    ELSE "Poor"

\* round(x, 2), in hundredths: to nearest, and a double that is exactly
\* halfway goes to the even neighbour
Round2(x) ==
    LET down == x.milli \div 10
        rest == x.milli % 10
    IN  IF rest > 5 \/ (rest = 5 /\ x.err > 0) THEN down + 1
        ELSE IF rest = 5 /\ x.err = 0 /\ down % 2 = 1 THEN down + 1
        ELSE down

\* WriteScore with the score written to the first meeting of the store
WriteScoreToFirst(ms, i, score_components, overall_score) ==
    [meetings |-> [ms EXCEPT ![1].effectiveness_score = Some(overall_score)],
     result |->
        [success |-> TRUE,
         meeting_id |-> ms[i].id,
         meeting_title |-> ms[i].title,
         overall_score |-> Round2(overall_score),
         score_components |-> score_components,
         effectiveness_rating |-> get_effectiveness_rating(overall_score)]]

\* the write kept from a meeting that has a score already
WriteScoreIfUnset(ms, i, score_components, overall_score) ==
    [meetings |->
        IF ms[i].effectiveness_score = None
        THEN [ms EXCEPT ![i].effectiveness_score = Some(overall_score)]
        ELSE ms,
     result |->
        [success |-> TRUE,
         meeting_id |-> ms[i].id,
         meeting_title |-> ms[i].title,
         overall_score |-> Round2(overall_score),
         score_components |-> score_components,
         effectiveness_rating |-> get_effectiveness_rating(overall_score)]]

\* lines 738-754: the write to the store and the dict returned
WriteScore(ms, i, score_components, overall_score) ==
    [meetings |-> [ms EXCEPT ![i].effectiveness_score = Some(overall_score)],
     result |->
        [success |-> TRUE,
         meeting_id |-> ms[i].id,
         meeting_title |-> ms[i].title,
         overall_score |-> Round2(overall_score),
         score_components |-> score_components,
         effectiveness_rating |-> get_effectiveness_rating(overall_score)]]

\* lines 718-733: the components and the overall score of the i-th meeting
ScoreStored(ms, i, score_components, sum) ==
    WriteScore(ms, i, score_components, OverallScore(score_components, sum))

\* score_meeting_effectiveness without the early return for an unknown id:
\* the call reports success and stores a record under the id
ScoreWithoutLookup(ms, meeting_id, sum) ==
    IF ~HasMeeting(ms, meeting_id)
    THEN [meetings |-> Append(ms, [ms[1] EXCEPT !.id = meeting_id]),
          result |-> [success |-> TRUE, meeting_id |-> meeting_id]]
    ELSE ScoreStored(ms, IndexOf(ms, meeting_id),
                     calculate_effectiveness_components(
                         ms[IndexOf(ms, meeting_id)]), sum)

\* score_meeting_effectiveness: the store after the call and the result
score_meeting_effectiveness(ms, meeting_id, sum) ==
    IF ~HasMeeting(ms, meeting_id)
    THEN [meetings |-> ms, result |-> Failure("Meeting not found")]
    ELSE ScoreStored(ms, IndexOf(ms, meeting_id),
                     calculate_effectiveness_components(
                         ms[IndexOf(ms, meeting_id)]), sum)

-----------------------------------------------------------------------------
(* Pattern analysis *)

\* round(n / d) for d > 0: to nearest, a tie to the even neighbour
RoundHalfEven(n, d) ==
    IF 2 * (n % d) > d THEN (n \div d) + 1
    ELSE IF 2 * (n % d) = d THEN (n \div d) + ((n \div d) % 2)
    ELSE n \div d

\* int(x) of n / d for d > 0: towards zero
Truncate(n, d) == IF n >= 0 THEN n \div d ELSE -((-n) \div d)

\* [m for m in self.meetings.values() if user_id in m.participants]
MeetingsOf(ms, user_id) ==
    SelectSeq(ms, LAMBDA m : InList(user_id, m.participants))

\* datetime.min.replace(tzinfo=timezone.utc): before every other instant
MinDateTime == DT(-(1024 * 1024 * 1024), TRUE, 0)

\* m.start_time >= cutoff raises for a naive start, the cutoff being aware
SinceRaises(list, cutoff) ==
    \E i \in 1..Len(list) : ~Comparable(list[i].start_time, cutoff)

\* [m for m in list if m.start_time >= cutoff]
Since(list, cutoff) ==
    SelectSeq(list, LAMBDA m : ~Lt(m.start_time, cutoff))

CutoffDate(clock, period) ==
    IF period = "week" THEN AddDays(clock, -7)
    ELSE IF period = "month" THEN AddDays(clock, -30)
    ELSE MinDateTime

RECURSIVE TotalSeconds(_, _)
TotalSeconds(list, i) ==
    IF i > Len(list) THEN 0
    ELSE DurationSeconds(list[i]) + TotalSeconds(list, i + 1)

\* the number of entries of the list that satisfy Test
Count(list, Test(_)) == Len(SelectSeq(list, Test))

\* a defaultdict(int) counting the entries of the list by Key
Frequency(list, Key(_)) ==
    [k \in {Key(list[i]) : i \in 1..Len(list)} |->
        Count(list, LAMBDA m : Key(m) = k)]

\* strftime("%A")
DayName(dt) ==
    CASE WeekdayOf(dt) = 0 -> "Monday"
      [] WeekdayOf(dt) = 1 -> "Tuesday"
      [] WeekdayOf(dt) = 2 -> "Wednesday"
      [] WeekdayOf(dt) = 3 -> "Thursday"
      [] WeekdayOf(dt) = 4 -> "Friday"
      [] WeekdayOf(dt) = 5 -> "Saturday"
      [] WeekdayOf(dt) = 6 -> "Sunday"

\* the scores that are not None
EffectivenessScores(list) ==
    SelectSeq(list, LAMBDA m : m.effectiveness_score # None)

RECURSIVE SumMilli(_, _)
SumMilli(scored, i) ==
    IF i > Len(scored) THEN 0
    ELSE scored[i].effectiveness_score[1].milli + SumMilli(scored, i + 1)

RECURSIVE SumErr(_, _)
SumErr(scored, i) ==
    IF i > Len(scored) THEN 0
    ELSE scored[i].effectiveness_score[1].err + SumErr(scored, i + 1)

Sign(n) == IF n > 0 THEN 1 ELSE IF n < 0 THEN -1 ELSE 0

\* sum(scores) / len(scores) as [num, den, err]: num / den thousandths, and
\* the side of it on which the floats lie; 0 for an empty list
AverageScore(scored) ==
    IF Len(scored) = 0 THEN [num |-> 0, den |-> 1, err |-> 0]
    ELSE [num |-> SumMilli(scored, 1), den |-> Len(scored),
          err |-> Sign(SumErr(scored, 1))]

\* avg < milli thousandths, avg > milli thousandths
AverageBelow(avg, milli) ==
    avg.num < milli * avg.den \/ (avg.num = milli * avg.den /\ avg.err < 0)

AverageAbove(avg, milli) ==
    avg.num > milli * avg.den \/ (avg.num = milli * avg.den /\ avg.err > 0)

\* round(avg, 2), in hundredths
RoundAverage(avg) ==
    IF 2 * (avg.num % (10 * avg.den)) = 10 * avg.den /\ avg.err # 0
    THEN (avg.num \div (10 * avg.den)) + (IF avg.err > 0 THEN 1 ELSE 0)
    ELSE RoundHalfEven(avg.num, 10 * avg.den)

\* the insights of _generate_productivity_insights, in the order appended
InsightsOf(flags) ==
    SelectSeq(<<"High meeting load", "Many early morning meetings",
                "Frequent late meetings", "Effectiveness below average",
                "Excellent effectiveness", "Many long meetings">>,
              LAMBDA text : text \in flags)

generate_productivity_insights(list) ==
    IF Len(list) = 0 THEN <<"No meetings found for analysis.">>
    ELSE InsightsOf(
        (IF TotalSeconds(list, 1) > 20 * 3600
         THEN {"High meeting load"} ELSE {})
        \cup (IF 10 * Count(list, LAMBDA m : HourOf(m.start_time) < 9)
                 > 3 * Len(list)
              THEN {"Many early morning meetings"} ELSE {})
        \cup (IF 10 * Count(list, LAMBDA m : HourOf(m.start_time) >= 17)
                 > 2 * Len(list)
              THEN {"Frequent late meetings"} ELSE {})
        \cup (IF Len(EffectivenessScores(list)) = 0 THEN {}
              ELSE IF AverageBelow(AverageScore(EffectivenessScores(list)), 6000)
              THEN {"Effectiveness below average"}
              ELSE IF AverageAbove(AverageScore(EffectivenessScores(list)), 8000)
              THEN {"Excellent effectiveness"}
              ELSE {})
        \cup (IF 10 * Count(list, LAMBDA m : DurationSeconds(m) > 3600)
                 > 4 * Len(list)
              THEN {"Many long meetings"} ELSE {}))

\* lines 346-387 for the meetings of the period: hours in hundredths,
\* durations and rates in tenths, the score in hundredths
Patterns(user_id, period, period_meetings) ==
    [success |-> TRUE,
     user_id |-> user_id,
     period |-> period,
     analysis |->
        [total_meetings |-> Len(period_meetings),
         total_hours |-> RoundHalfEven(TotalSeconds(period_meetings, 1), 36),
         average_meeting_duration |->
            IF Len(period_meetings) > 0
            THEN RoundHalfEven(TotalSeconds(period_meetings, 1),
                               6 * Len(period_meetings))
            ELSE 0,
         meetings_per_day |->
            IF period = "week"
            THEN RoundHalfEven(10 * Len(period_meetings), 7)
            ELSE RoundHalfEven(10 * Len(period_meetings), 30),
         day_frequency |->
            Frequency(period_meetings, LAMBDA m : DayName(m.start_time)),
         hour_frequency |->
            Frequency(period_meetings, LAMBDA m : HourOf(m.start_time)),
         duration_distribution |->
            Frequency(period_meetings,
                      LAMBDA m : Truncate(DurationSeconds(m), 60)),
         meeting_type_frequency |->
            Frequency(period_meetings, LAMBDA m : m.meeting_type),
         average_effectiveness_score |->
            RoundAverage(AverageScore(EffectivenessScores(period_meetings))),
         productivity_insights |->
            generate_productivity_insights(period_meetings)]]

analyze_meeting_patterns(ms, clock, user_id, period) ==
    IF SinceRaises(MeetingsOf(ms, user_id), CutoffDate(clock, period))
    THEN Failure("TypeError")
    ELSE Patterns(user_id, period,
                  Since(MeetingsOf(ms, user_id), CutoffDate(clock, period)))

-----------------------------------------------------------------------------
(* Workload balance *)

MinOfTwo(a, b) == IF b < a THEN b ELSE a

\* _calculate_workload_score, in tenths, from the seconds and the number of
\* the meetings of 30 days: daily_hours / 4.0 * 100 is seconds / 4320 and
\* daily_meetings / 6.0 * 100 is meetings * 2400 / 4320
calculate_workload_score(total_seconds, total_meetings) ==
    RoundHalfEven(7 * MinOfTwo(total_seconds, 100 * 4320)
                  + 3 * MinOfTwo(2400 * total_meetings, 100 * 4320),
                  4320)

\* lines 604-611 for the recent meetings of a member: hours and daily
\* averages in hundredths, the score in tenths
Workload(recent_meetings) ==
    [total_meetings_30d |-> Len(recent_meetings),
     total_hours_30d |-> RoundHalfEven(TotalSeconds(recent_meetings, 1), 36),
     daily_avg_meetings |-> RoundHalfEven(10 * Len(recent_meetings), 3),
     daily_avg_hours |-> RoundHalfEven(TotalSeconds(recent_meetings, 1), 1080),
     meeting_types |-> Frequency(recent_meetings, LAMBDA m : m.meeting_type),
     workload_score |->
        calculate_workload_score(TotalSeconds(recent_meetings, 1),
                                 Len(recent_meetings))]

\* the keys of workload_data in insertion order: the members without
\* repetitions
RECURSIVE Keys(_, _, _)
Keys(team_members, i, keys) ==
    IF i > Len(team_members) THEN keys
    ELSE Keys(team_members, i + 1,
              IF InList(team_members[i], keys) THEN keys
              ELSE Append(keys, team_members[i]))

RECURSIVE SumOver(_, _, _)
SumOver(keys, value, i) ==
    IF i > Len(keys) THEN 0 ELSE value[keys[i]] + SumOver(keys, value, i + 1)

\* max(keys, key=...) and min(keys, key=...): the first of the best
RECURSIVE FirstBest(_, _, _, _, _)
FirstBest(keys, value, i, best, sense) ==
    IF i > Len(keys) THEN best
    ELSE FirstBest(keys, value, i + 1,
                   IF sense * value[keys[i]] > sense * value[best]
                   THEN keys[i] ELSE best,
                   sense)

\* _calculate_variance of scores in tenths, times 100 * n * n
VarianceNumerator(keys, score) ==
    Len(keys) * SumOver(keys, [k \in DOMAIN score |-> score[k] * score[k]], 1)
    - SumOver(keys, score, 1) * SumOver(keys, score, 1)

\* _calculate_team_workload_stats: None stands for the empty dict
TeamStats(keys, hours, daily, score) ==
    IF Len(keys) = 0 THEN None
    ELSE Some(
        [avg_daily_hours |-> RoundHalfEven(SumOver(keys, hours, 1), Len(keys)),
         avg_daily_meetings |->
            RoundHalfEven(SumOver(keys, daily, 1), Len(keys)),
         avg_workload_score |->
            RoundHalfEven(SumOver(keys, score, 1), Len(keys)),
         max_workload_member |-> FirstBest(keys, score, 1, keys[1], 1),
         min_workload_member |-> FirstBest(keys, score, 1, keys[1], -1),
         workload_variance |->
            IF Len(keys) < 2 THEN 0
            ELSE RoundHalfEven(VarianceNumerator(keys, score),
                               10 * Len(keys) * Len(keys))])

RECURSIVE Standups(_, _, _)
Standups(keys, data, i) ==
    IF i > Len(keys) THEN 0
    ELSE (IF "standup" \in DOMAIN data[keys[i]].meeting_types
          THEN data[keys[i]].meeting_types["standup"] ELSE 0)
         + Standups(keys, data, i + 1)

\* _generate_workload_recommendations, in the order appended
WorkloadRecommendations(keys, data, stats) ==
    IF Len(keys) = 0 \/ stats = None THEN <<>>
    ELSE SelectSeq(
        <<[rule |-> "overloaded",
           on |-> \E i \in 1..Len(keys) : data[keys[i]].workload_score > 700],
          [rule |-> "shift",
           on |-> /\ \E i \in 1..Len(keys) : data[keys[i]].workload_score > 700
                  /\ \E i \in 1..Len(keys) : data[keys[i]].workload_score < 300],
          [rule |-> "variance", on |-> stats[1].workload_variance > 4000],
          [rule |-> "team load high", on |-> stats[1].avg_workload_score > 600],
          [rule |-> "team load low",
           on |-> /\ stats[1].avg_workload_score <= 600
                  /\ stats[1].avg_workload_score < 200],
          [rule |-> "standups", on |-> Standups(keys, data, 1) > 10 * Len(keys)]>>,
        LAMBDA r : r.on)

\* lines 613-626, given the data of every member
WorkloadResult(team_members, keys, data) ==
    [success |-> TRUE,
     team_members |-> team_members,
     workload_analysis |-> data,
     team_statistics |->
        TeamStats(keys, [k \in DOMAIN data |-> data[k].daily_avg_hours],
                  [k \in DOMAIN data |-> data[k].daily_avg_meetings],
                  [k \in DOMAIN data |-> data[k].workload_score]),
     balance_recommendations |->
        WorkloadRecommendations(
            keys, data,
            TeamStats(keys, [k \in DOMAIN data |-> data[k].daily_avg_hours],
                      [k \in DOMAIN data |-> data[k].daily_avg_meetings],
                      [k \in DOMAIN data |-> data[k].workload_score])),
     analysis_period |-> "Last 30 days"]

calculate_workload_balance(ms, clock, team_members) ==
    IF \E i \in 1..Len(team_members) :
          SinceRaises(MeetingsOf(ms, team_members[i]), AddDays(clock, -30))
    THEN Failure("TypeError")
    ELSE WorkloadResult(
             team_members, Keys(team_members, 1, <<>>),
             [member \in {team_members[i] : i \in 1..Len(team_members)} |->
                 Workload(Since(MeetingsOf(ms, member), AddDays(clock, -30)))])

-----------------------------------------------------------------------------
(* Schedule optimization *)

\* sorted(meetings, key=lambda m: m.start_time): stable
RECURSIVE SortedByStart(_, _, _)
SortedByStart(list, i, sorted) ==
    IF i > Len(list) THEN sorted
    ELSE SortedByStart(
             list, i + 1,
             SelectSeq(sorted, LAMBDA m : ~Gt(m.start_time, list[i].start_time))
             \o <<list[i]>>
             \o SelectSeq(sorted, LAMBDA m : Gt(m.start_time, list[i].start_time)))

\* the pairs of neighbours with a break of less than min_break minutes,
\* overlapping neighbours included
ShortGapPairs(sorted, min_break) ==
    Cardinality({i \in 1..(Len(sorted) - 1) :
                    SecondsBetween(sorted[i + 1].start_time,
                                   sorted[i].end_time) < 60 * min_break})

\* the pairs of neighbours with a break of 0 or more and less than min_break
\* minutes
BackToBackPairs(sorted, min_break) ==
    Cardinality({i \in 1..(Len(sorted) - 1) :
                    /\ SecondsBetween(sorted[i + 1].start_time,
                                      sorted[i].end_time) >= 0
                    /\ SecondsBetween(sorted[i + 1].start_time,
                                      sorted[i].end_time) < 60 * min_break})

count_back_to_back_meetings(list, min_break) ==
    IF Len(list) < 2 THEN 0
    ELSE BackToBackPairs(SortedByStart(list, 1, <<>>), min_break)

\* the days that hold more meetings than the limit
HeavyDays(recent_meetings, limit) ==
    Cardinality({d \in {DateOf(recent_meetings[i].start_time) :
                           i \in 1..Len(recent_meetings)} :
                    Count(recent_meetings,
                          LAMBDA m : DateOf(m.start_time) = d) > limit})

OffHours(recent_meetings, hours) ==
    Count(recent_meetings,
          LAMBDA m : ~(hours[1] <= HourOf(m.start_time)
                       /\ HourOf(m.start_time) <= hours[2]))

\* duration in minutes > preferred duration * 1.5
LongMeetings(recent_meetings, preferred) ==
    Count(recent_meetings, LAMBDA m : 2 * DurationSeconds(m) > 180 * preferred)

\* lines 917-956, given the four counts; the rate is in tenths
ScheduleAnalysis(total, heavy_days, off_hours_meetings, back_to_back, long_meetings) ==
    [total_meetings |-> total,
     avg_daily_meetings |-> RoundHalfEven(10 * total, 30),
     heavy_meeting_days |-> heavy_days,
     off_hours_meetings |-> off_hours_meetings,
     back_to_back_meetings |-> back_to_back,
     long_meetings |-> long_meetings,
     issues |->
        SelectSeq(
            <<[issue |-> "Heavy meeting days", on |-> heavy_days > 0],
              [issue |-> "Many meetings outside preferred hours",
               on |-> 10 * off_hours_meetings > 2 * total],
              [issue |-> "Frequent back-to-back meetings",
               on |-> 10 * back_to_back > 3 * total],
              [issue |-> "Many meetings exceed preferred duration",
               on |-> 10 * long_meetings > 3 * total]>>,
            LAMBDA r : r.on)]

\* the analysis of a user without meetings: no counts at all
EmptyAnalysis == [total_meetings |-> 0, issues |-> <<>>]

\* analysis.get(key, 0)
Get(analysis, key) == IF key \in DOMAIN analysis THEN analysis[key] ELSE 0

RecentAnalysis(recent_meetings, prefs) ==
    ScheduleAnalysis(
        Len(recent_meetings),
        HeavyDays(recent_meetings, prefs.max_daily_meetings),
        OffHours(recent_meetings, prefs.preferred_meeting_hours),
        count_back_to_back_meetings(recent_meetings,
                                    prefs.break_time_between_meetings),
        LongMeetings(recent_meetings, prefs.preferred_meeting_duration))

\* _analyze_current_schedule; the caller has excluded a raising comparison
analyze_current_schedule(list, prefs, clock) ==
    IF Len(list) = 0 THEN EmptyAnalysis
    ELSE RecentAnalysis(Since(list, AddDays(clock, -30)), prefs)

Optimization(type, priority) == [type |-> type, priority |-> priority]

\* the rules with the time blocking suggestion only for a schedule that no
\* other rule applies to
TimeBlockingWhenIdle(analysis) ==
    SelectSeq(
        <<[rule |-> Optimization("meeting_distribution", "high"),
           on |-> Get(analysis, "heavy_meeting_days") > 0],
          [rule |-> Optimization("time_alignment", "medium"),
           on |-> Get(analysis, "off_hours_meetings") > 0],
          [rule |-> Optimization("buffer_time", "high"),
           on |-> Get(analysis, "back_to_back_meetings") > 0],
          [rule |-> Optimization("duration_optimization", "medium"),
           on |-> Get(analysis, "long_meetings") > 0],
          [rule |-> Optimization("meeting_reduction", "medium"),
           on |-> Get(analysis, "avg_daily_meetings") > 40],
          [rule |-> Optimization("time_blocking", "low"),
           on |-> /\ Get(analysis, "heavy_meeting_days") = 0
                  /\ Get(analysis, "off_hours_meetings") = 0
                  /\ Get(analysis, "back_to_back_meetings") = 0
                  /\ Get(analysis, "long_meetings") = 0]>>,
        LAMBDA r : r.on)

\* _generate_schedule_optimizations: the rules in the order applied, the
\* time blocking suggestion last
generate_schedule_optimizations(analysis) ==
    SelectSeq(
        <<[rule |-> Optimization("meeting_distribution", "high"),
           on |-> Get(analysis, "heavy_meeting_days") > 0],
          [rule |-> Optimization("time_alignment", "medium"),
           on |-> Get(analysis, "off_hours_meetings") > 0],
          [rule |-> Optimization("buffer_time", "high"),
           on |-> Get(analysis, "back_to_back_meetings") > 0],
          [rule |-> Optimization("duration_optimization", "medium"),
           on |-> Get(analysis, "long_meetings") > 0],
          [rule |-> Optimization("meeting_reduction", "medium"),
           on |-> Get(analysis, "avg_daily_meetings") > 40],
          [rule |-> Optimization("time_blocking", "low"), on |-> TRUE]>>,
        LAMBDA r : r.on)

\* the optimizations themselves
Rules(selected) == [i \in 1..Len(selected) |-> selected[i].rule]

HoursSaved(type) ==
    CASE type = "meeting_distribution" -> 2
      [] type = "time_alignment" -> 1
      [] type = "buffer_time" -> 3
      [] type = "duration_optimization" -> 4
      [] type = "meeting_reduction" -> 5
      [] type = "time_blocking" -> 6
      [] OTHER -> 0

ProductivityGain(type) ==
    CASE type = "meeting_distribution" -> 15
      [] type = "time_alignment" -> 10
      [] type = "buffer_time" -> 20
      [] type = "duration_optimization" -> 25
      [] type = "meeting_reduction" -> 30
      [] type = "time_blocking" -> 35
      [] OTHER -> 0

RECURSIVE Total(_, _, _)
Total(optimizations, Estimate(_), i) ==
    IF i > Len(optimizations) THEN 0
    ELSE Estimate(optimizations[i].type) + Total(optimizations, Estimate, i + 1)

\* the totals without the caps
UncappedSavings(optimizations) ==
    [time_saved_hours_per_week |-> Total(optimizations, HoursSaved, 1),
     productivity_gain_percent |-> Total(optimizations, ProductivityGain, 1),
     focus_time_gained_hours_week |-> 8 * Total(optimizations, HoursSaved, 1),
     estimated_monthly_benefit |-> 4 * Total(optimizations, HoursSaved, 1)]

\* _calculate_potential_savings: the focus time is in tenths of an hour
calculate_potential_savings(optimizations) ==
    [time_saved_hours_per_week |->
        MinOfTwo(Total(optimizations, HoursSaved, 1), 15),
     productivity_gain_percent |->
        MinOfTwo(Total(optimizations, ProductivityGain, 1), 50),
     focus_time_gained_hours_week |->
        8 * MinOfTwo(Total(optimizations, HoursSaved, 1), 15),
     estimated_monthly_benefit |->
        4 * MinOfTwo(Total(optimizations, HoursSaved, 1), 15)]

\* _prioritize_optimizations: one entry for every priority that occurs
prioritize_optimizations(optimizations) ==
    SelectSeq(
        [i \in 1..3 |->
            [priority |-> <<"high", "medium", "low">>[i],
             types |->
                Rules(SelectSeq(
                    [k \in 1..Len(optimizations) |->
                        [rule |-> optimizations[k].type,
                         on |-> optimizations[k].priority
                                = <<"high", "medium", "low">>[i]]],
                    LAMBDA r : r.on))]],
        LAMBDA group : group.types # <<>>)

\* lines 895-902, given the analysis and the optimizations
OptimizeResult(user_id, analysis, optimizations) ==
    [success |-> TRUE,
     user_id |-> user_id,
     current_schedule_analysis |-> analysis,
     optimization_recommendations |-> optimizations,
     potential_time_savings |-> calculate_potential_savings(optimizations),
     implementation_priority |-> prioritize_optimizations(optimizations)]

Optimized(user_id, analysis) ==
    OptimizeResult(user_id, analysis,
                   Rules(generate_schedule_optimizations(analysis)))

\* optimize_meeting_schedule with a default record taken for a user who has
\* none, and kept
OptimizeWithDefaults(ms, prefs, clock, user_id) ==
    IF user_id \notin DOMAIN prefs
    THEN [user_preferences |->
             [u \in DOMAIN prefs \cup {user_id} |->
                 IF u = user_id
                 THEN UserPreferences(user_id, <<9, 17>>, "UTC", 8, 60)
                 ELSE prefs[u]],
          result |-> Optimized(user_id, EmptyAnalysis)]
    ELSE IF /\ Len(MeetingsOf(ms, user_id)) > 0
            /\ SinceRaises(MeetingsOf(ms, user_id), AddDays(clock, -30))
    THEN [user_preferences |-> prefs, result |-> Failure("TypeError")]
    ELSE [user_preferences |-> prefs,
          result |->
             Optimized(user_id,
                       analyze_current_schedule(MeetingsOf(ms, user_id),
                                                prefs[user_id], clock))]

\* optimize_meeting_schedule writing the duration it recommends into the
\* preference record of the user
OptimizeAdoptingDuration(ms, prefs, clock, user_id) ==
    IF user_id \notin DOMAIN prefs
    THEN [user_preferences |-> prefs,
          result |-> Failure("User preferences not found")]
    ELSE IF /\ Len(MeetingsOf(ms, user_id)) > 0
            /\ SinceRaises(MeetingsOf(ms, user_id), AddDays(clock, -30))
    THEN [user_preferences |-> prefs, result |-> Failure("TypeError")]
    ELSE [user_preferences |->
             [prefs EXCEPT ![user_id].preferred_meeting_duration = 30],
          result |->
             Optimized(user_id,
                       analyze_current_schedule(MeetingsOf(ms, user_id),
                                                prefs[user_id], clock))]

\* optimize_meeting_schedule: the preference map after the call, and the
\* result
optimize_meeting_schedule(ms, prefs, clock, user_id) ==
    IF user_id \notin DOMAIN prefs
    THEN [user_preferences |-> prefs,
          result |-> Failure("User preferences not found")]
    ELSE IF /\ Len(MeetingsOf(ms, user_id)) > 0
            /\ SinceRaises(MeetingsOf(ms, user_id), AddDays(clock, -30))
    THEN [user_preferences |-> prefs, result |-> Failure("TypeError")]
    ELSE [user_preferences |-> prefs,
          result |->
             Optimized(user_id,
                       analyze_current_schedule(MeetingsOf(ms, user_id),
                                                prefs[user_id], clock))]

-----------------------------------------------------------------------------
(* Agenda suggestions *)

\* A text is the sequence of its characters.
UpperCase ==
    <<"A", "B", "C", "D", "E", "F", "G", "H", "I", "J", "K", "L", "M", "N",
    "O", "P", "Q", "R", "S", "T", "U", "V", "W", "X", "Y", "Z">>

LowerCase ==
    <<"a", "b", "c", "d", "e", "f", "g", "h", "i", "j", "k", "l", "m", "n",
    "o", "p", "q", "r", "s", "t", "u", "v", "w", "x", "y", "z">>

LowerChar(c) ==
    IF \E i \in 1..Len(UpperCase) : UpperCase[i] = c
    THEN LowerCase[CHOOSE i \in 1..Len(UpperCase) : UpperCase[i] = c]
    ELSE c

\* str.lower()
Lower(text) == [i \in 1..Len(text) |-> LowerChar(text[i])]

\* word in text
Contains(text, word) ==
    \E i \in 1..(Len(text) - Len(word) + 1) :
        SubSeq(text, i, i + Len(word) - 1) = word

WordPlanning == <<"p", "l", "a", "n", "n", "i", "n", "g">>

WordStrategy == <<"s", "t", "r", "a", "t", "e", "g", "y">>

WordReview == <<"r", "e", "v", "i", "e", "w">>

WordRetrospective == <<"r", "e", "t", "r", "o", "s", "p", "e", "c", "t",
                         "i", "v", "e">>

WordBrainstorm == <<"b", "r", "a", "i", "n", "s", "t", "o", "r", "m">>

WordIdeation == <<"i", "d", "e", "a", "t", "i", "o", "n">>

WordStandup == <<"s", "t", "a", "n", "d", "u", "p">>

WordSync == <<"s", "y", "n", "c">>

WordDecision == <<"d", "e", "c", "i", "s", "i", "o", "n">>

AgendaItem(item, type) == [item |-> item, type |-> type]

\* a selection that looks for the status update words before all others
StandupFirstItems(topic_lower) ==
    IF Contains(topic_lower, WordStandup) \/ Contains(topic_lower, WordSync)
    THEN <<AgendaItem("Round-robin updates", "update"),
           AgendaItem("Blocker resolution", "problem-solving"),
           AgendaItem("Coordination needs", "coordination")>>
    ELSE <<AgendaItem("Main discussion topics", "discussion"),
           AgendaItem("Decision points", "decision"),
           AgendaItem("Information sharing", "information")>>

\* the items of the template that the topic selects, the first match winning
TopicItems(topic_lower) ==
    IF Contains(topic_lower, WordPlanning) \/ Contains(topic_lower, WordStrategy)
    THEN <<AgendaItem("Current status review", "review"),
           AgendaItem("Goal setting and priorities", "planning"),
           AgendaItem("Resource allocation", "planning"),
           AgendaItem("Risk assessment", "analysis")>>
    ELSE IF Contains(topic_lower, WordReview)
            \/ Contains(topic_lower, WordRetrospective)
    THEN <<AgendaItem("Achievements and wins", "review"),
           AgendaItem("Challenges and lessons learned", "review"),
           AgendaItem("Process improvements", "improvement"),
           AgendaItem("Action items for next period", "planning")>>
    ELSE IF Contains(topic_lower, WordBrainstorm)
            \/ Contains(topic_lower, WordIdeation)
    THEN <<AgendaItem("Problem definition", "framing"),
           AgendaItem("Idea generation", "brainstorming"),
           AgendaItem("Idea evaluation", "analysis"),
           AgendaItem("Next steps selection", "decision")>>
    ELSE IF Contains(topic_lower, WordStandup) \/ Contains(topic_lower, WordSync)
    THEN <<AgendaItem("Round-robin updates", "update"),
           AgendaItem("Blocker resolution", "problem-solving"),
           AgendaItem("Coordination needs", "coordination")>>
    ELSE <<AgendaItem("Main discussion topics", "discussion"),
           AgendaItem("Decision points", "decision"),
           AgendaItem("Information sharing", "information")>>

generate_agenda_items(topic) ==
    <<AgendaItem("Welcome and introductions", "opening"),
      AgendaItem("Meeting objectives", "overview")>>
    \o TopicItems(Lower(topic))
    \o <<AgendaItem("Action items and owners", "action"),
         AgendaItem("Next meeting and follow-up", "closing")>>

\* type_durations.get(item_type, 10)
TypeDuration(type) ==
    CASE type \in {"opening", "overview", "closing"} -> 5
      [] type \in {"framing", "coordination", "information"} -> 8
      [] type \in {"review", "improvement", "decision", "action"} -> 10
      [] type \in {"analysis", "problem-solving"} -> 12
      [] type \in {"planning", "update", "discussion"} -> 15
      [] type = "brainstorming" -> 20
      [] OTHER -> 10

\* _estimate_time_allocation: minutes by item
estimate_time_allocation(agenda_items) ==
    [item \in {agenda_items[i].item : i \in 1..Len(agenda_items)} |->
        TypeDuration(
            agenda_items[CHOOSE i \in 1..Len(agenda_items) :
                            /\ agenda_items[i].item = item
                            /\ \A j \in (i + 1)..Len(agenda_items) :
                                  agenda_items[j].item # item].type)]

\* sum(time_allocation.values())
RECURSIVE SumOfValues(_, _)
SumOfValues(f, keys) ==
    IF keys = {} THEN 0
    ELSE f[CHOOSE k \in keys : TRUE]
         + SumOfValues(f, keys \ {CHOOSE k \in keys : TRUE})

\* _generate_preparation_tips: the four base tips, then the additions
generate_preparation_tips(topic, participants) ==
    <<"Send agenda", "Include pre-reading", "Test technology",
      "Prepare key questions">>
    \o (IF Len(participants) > 5
        THEN <<"Assign a facilitator", "Use structured discussion formats">>
        ELSE <<>>)
    \o (IF Contains(Lower(topic), WordDecision)
        THEN <<"Prepare decision criteria", "Gather relevant data">>
        ELSE <<>>)
    \o (IF Contains(Lower(topic), WordBrainstorm)
        THEN <<"Set ground rules", "Prepare stimulus materials">>
        ELSE <<>>)

\* lines 446-462, given the agenda items
AgendaResult(meeting_topic, participants, agenda_items) ==
    [success |-> TRUE,
     meeting_topic |-> meeting_topic,
     participants |-> participants,
     suggested_agenda |->
        [items |-> agenda_items,
         estimated_duration |->
            SumOfValues(estimate_time_allocation(agenda_items),
                        DOMAIN estimate_time_allocation(agenda_items)),
         time_allocation |-> estimate_time_allocation(agenda_items)],
     preparation_tips |-> generate_preparation_tips(meeting_topic, participants),
     success_factors |->
        <<"Start and end on time", "Keep discussions focused on agenda items",
          "Assign clear action items with owners", "Follow up within 24 hours">>]

generate_agenda_suggestions(ms, meeting_topic, participants) ==
    AgendaResult(meeting_topic, participants, generate_agenda_items(meeting_topic))

-----------------------------------------------------------------------------
(* The state after construction *)

Users ==
    {"alice@company.com", "bob@company.com", "charlie@company.com",
     "diana@company.com", "eve@company.com", "frank@company.com",
     "grace@company.com", "henry@company.com"}

\* the tuples of _initialize_sample_data: timezone and working hours
UserTimezone(u) ==
    CASE u = "alice@company.com" -> "America/New_York"
      [] u = "bob@company.com" -> "America/Los_Angeles"
      [] u = "charlie@company.com" -> "Europe/London"
      [] u = "diana@company.com" -> "Asia/Tokyo"
      [] u = "eve@company.com" -> "Australia/Sydney"
      [] u = "frank@company.com" -> "America/Chicago"
      [] u = "grace@company.com" -> "Europe/Berlin"
      [] u = "henry@company.com" -> "Asia/Singapore"

UserHours(u) ==
    CASE u \in {"alice@company.com", "diana@company.com", "frank@company.com"}
            -> <<9, 17>>
      [] u \in {"bob@company.com", "eve@company.com"} -> <<8, 16>>
      [] u \in {"charlie@company.com", "henry@company.com"} -> <<9, 18>>
      [] u = "grace@company.com" -> <<8, 17>>

\* random.randint(6, 10) and random.choice([30, 45, 60, 90]): the draws the
\* model starts from
SamplePreferences ==
    {[u \in Users |-> UserPreferences(u, UserHours(u), UserTimezone(u), 8, 60)]}

\* a user without a preference record
Stranger == "zed@elsewhere.org"

\* the clock at construction: Monday of week 5, 00:00:30
StartClocks == {UTC(35, 0, 0, 30)}

\* one meeting of the sample loop: start = base_time + days_offset days +
\* hour hours + minute minutes, with base_time = now - 30 days
SampleMeeting(prefs, clock, id, participants, days_offset, hour, minute, duration, title, meeting_type, effectiveness_score) ==
    LET start_time ==
            AddMinutes(AddDays(clock, days_offset - 30), hour * 60 + minute)
    IN  Meeting(id, title, participants, start_time,
                AddMinutes(start_time, duration),
                prefs[participants[1]].timezone_str, participants[1],
                None, meeting_type, Some(effectiveness_score), clock)

\* the sample stores the model starts from (the program draws 65 meetings;
\* the model keeps one of them)
SampleStores(prefs, clock) ==
    { <<SampleMeeting(prefs, clock, 1, <<"alice@company.com", "bob@company.com">>,
                      30, 10, 0, 60, "Standup Meeting 1", "standup", Float(7250, 0))>>,
      <<SampleMeeting(prefs, clock, 1,
                      <<"bob@company.com", "charlie@company.com",
                        "diana@company.com">>,
                      30, 14, 45, 120, "Review Meeting 1", "planning", Float(3000, 0))>> }

NoCall == [op |-> "none", args |-> <<>>, result |-> <<>>]

Init ==
    /\ user_preferences \in SamplePreferences
    /\ now \in StartClocks
    /\ meetings \in SampleStores(user_preferences, now)
    /\ last = NoCall
    /\ inflight = <<>>

-----------------------------------------------------------------------------
(* The tool calls *)

\* the sample data fills the first entries of the store
SampleSize == Len(CHOOSE s \in SampleStores(CHOOSE p \in SamplePreferences : TRUE,
                                           CHOOSE c \in StartClocks : TRUE) : TRUE)

CreateMeeting(title, participants, duration, preferences) ==
    /\ Len(meetings) < SampleSize + MaxCreated
    /\ LET r == create_meeting(meetings, user_preferences, now, title,
                               participants, duration, preferences)
       IN  /\ meetings' = r.meetings
           /\ last' = [op |-> "create_meeting",
                       args |-> [title |-> title, participants |-> participants,
                                 duration |-> duration,
                                 preferences |-> preferences],
                       result |-> r.result]
    /\ UNCHANGED <<user_preferences, now, inflight>>

FindOptimalSlots(participants, duration, date_range) ==
    /\ last' = [op |-> "find_optimal_slots",
                args |-> [participants |-> participants, duration |-> duration,
                          date_range |-> date_range],
                result |-> find_optimal_slots(meetings, now, participants,
                                              duration, date_range)]
    /\ UNCHANGED <<meetings, user_preferences, now, inflight>>

DetectSchedulingConflicts(user_id, time_range) ==
    /\ last' = [op |-> "detect_scheduling_conflicts",
                args |-> [user_id |-> user_id, time_range |-> time_range],
                result |-> detect_scheduling_conflicts(meetings, user_id,
                                                       time_range)]
    /\ UNCHANGED <<meetings, user_preferences, now, inflight>>

ScoreMeetingEffectiveness(meeting_id) ==
    /\ \E sum \in Sums :
          LET r == score_meeting_effectiveness(meetings, meeting_id, sum)
          IN  /\ meetings' = r.meetings
              /\ last' = [op |-> "score_meeting_effectiveness",
                          args |-> [meeting_id |-> meeting_id],
                          result |-> r.result]
    /\ UNCHANGED <<user_preferences, now, inflight>>

AnalyzeMeetingPatterns(user_id, period) ==
    /\ last' = [op |-> "analyze_meeting_patterns",
                args |-> [user_id |-> user_id, period |-> period],
                result |-> analyze_meeting_patterns(meetings, now, user_id,
                                                    period)]
    /\ UNCHANGED <<meetings, user_preferences, now, inflight>>

GenerateAgendaSuggestions(meeting_topic, participants) ==
    /\ last' = [op |-> "generate_agenda_suggestions",
                args |-> [meeting_topic |-> meeting_topic,
                          participants |-> participants],
                result |-> generate_agenda_suggestions(meetings, meeting_topic,
                                                       participants)]
    /\ UNCHANGED <<meetings, user_preferences, now, inflight>>

CalculateWorkloadBalance(team_members) ==
    /\ last' = [op |-> "calculate_workload_balance",
                args |-> [team_members |-> team_members],
                result |-> calculate_workload_balance(meetings, now,
                                                      team_members)]
    /\ UNCHANGED <<meetings, user_preferences, now, inflight>>

OptimizeMeetingSchedule(user_id) ==
    /\ LET r == optimize_meeting_schedule(meetings, user_preferences, now,
                                          user_id)
       IN  /\ user_preferences' = r.user_preferences
           /\ last' = [op |-> "optimize_meeting_schedule",
                       args |-> [user_id |-> user_id],
                       result |-> r.result]
    /\ UNCHANGED <<meetings, now, inflight>>

\* lines 889-902 of optimize_meeting_schedule for a schedule analysis that
\* _analyze_current_schedule can return
Advise(user_id, analysis) ==
    /\ last' = [op |-> "generate_schedule_optimizations",
                args |-> [user_id |-> user_id, analysis |-> analysis],
                result |-> Optimized(user_id, analysis)]
    /\ UNCHANGED <<meetings, user_preferences, now, inflight>>

\* the store after a handler has run, and the result it returns
Handled(ms, prefs, result) ==
    [meetings |-> ms, user_preferences |-> prefs, result |-> result]

\* tuple(datetime.fromisoformat(t) for t in arguments["time_range"])
ParsedRange(time_range) ==
    [i \in 1..Len(time_range) |-> fromisoformat(time_range[i])]

\* handle_call_tool: the dispatch on the tool name; it runs from the first
\* statement to the return without awaiting anything
call_tool(ms, prefs, clock, name, arguments, sum) ==
    IF name = "create_meeting"
    THEN LET r == create_meeting(ms, prefs, clock, arguments.title,
                                 arguments.participants, arguments.duration,
                                 arguments.preferences)
         IN  Handled(r.meetings, prefs, r.result)
    ELSE IF name = "find_optimal_slots"
    THEN Handled(ms, prefs,
                 find_optimal_slots(ms, clock, arguments.participants,
                                    arguments.duration, arguments.date_range))
    ELSE IF name = "detect_scheduling_conflicts"
    THEN Handled(ms, prefs,
                 IF \E i \in 1..Len(arguments.time_range) :
                       ~ParsesAsIso(arguments.time_range[i])
                 THEN Failure("ValueError")
                 ELSE detect_scheduling_conflicts(
                          ms, arguments.user_id,
                          ParsedRange(arguments.time_range)))
    ELSE IF name = "analyze_meeting_patterns"
    THEN Handled(ms, prefs,
                 analyze_meeting_patterns(ms, clock, arguments.user_id,
                                          arguments.period))
    ELSE IF name = "generate_agenda_suggestions"
    THEN Handled(ms, prefs,
                 generate_agenda_suggestions(ms, arguments.meeting_topic,
                                             arguments.participants))
    ELSE IF name = "calculate_workload_balance"
    THEN Handled(ms, prefs,
                 calculate_workload_balance(ms, clock, arguments.team_members))
    ELSE IF name = "score_meeting_effectiveness"
    THEN LET r == score_meeting_effectiveness(ms, arguments.meeting_id, sum)
         IN  Handled(r.meetings, prefs, r.result)
    ELSE IF name = "optimize_meeting_schedule"
    THEN LET r == optimize_meeting_schedule(ms, prefs, clock,
                                            arguments.user_id)
         IN  Handled(ms, r.user_preferences, r.result)
    ELSE Handled(ms, prefs, Failure("Unknown tool"))

Without(queue, i) ==
    [j \in 1..(Len(queue) - 1) |-> IF j < i THEN queue[j] ELSE queue[j + 1]]

\* a request arrives while others wait for their handler
Receive(name, arguments) ==
    /\ Len(inflight) < MaxInFlight
    /\ inflight' = Append(inflight, [name |-> name, arguments |-> arguments])
    /\ UNCHANGED <<meetings, user_preferences, now, last>>

\* the event loop runs the handler of one of the waiting requests
Handle(i) ==
    /\ i \in 1..Len(inflight)
    /\ inflight[i].name = "create_meeting"
          => Len(meetings) < SampleSize + MaxCreated
    /\ \E sum \in Sums :
          LET r == call_tool(meetings, user_preferences, now, inflight[i].name,
                             inflight[i].arguments, sum)
          IN  /\ meetings' = r.meetings
              /\ user_preferences' = r.user_preferences
              /\ last' = [op |-> inflight[i].name,
                          args |-> inflight[i].arguments,
                          result |-> r.result]
    /\ inflight' = Without(inflight, i)
    /\ UNCHANGED now

-----------------------------------------------------------------------------
(* The calls explored *)

Alice == "alice@company.com"

Bob == "bob@company.com"

\* Monday 10:30 of the week the model starts in
MondayHalfPastTen == UTC(35, 10, 30, 0)

Prefs(preferred_time, agenda) ==
    [preferred_time |-> preferred_time, agenda |-> agenda]

Call(title, participants, duration, preferences) ==
    [title |-> title, participants |-> participants, duration |-> duration,
     preferences |-> preferences]

Find(participants, duration, date_range) ==
    [participants |-> participants, duration |-> duration,
     date_range |-> date_range]

Detect(user_id, time_range) == [user_id |-> user_id, time_range |-> time_range]

\* preferred times with an offset, without one, and no time at all
CreateCalls ==
    { Call("Sync", <<Alice, Stranger>>, 60,
           Prefs(Some(isoformat(MondayHalfPastTen)), Some("Roadmap"))),
      Call("Sync", <<Alice>>, 45,
           Prefs(Some(isoformat(Naive(35, 10, 30, 0))), None)),
      Call("Sync", <<Alice>>, 30, Prefs(Some(NotATime), None)) }

\* empty participant lists and durations that are not positive
InvalidCreateCalls ==
    { Call("Empty", <<>>, 30, Prefs(None, None)),
      Call("Zero", <<Alice>>, 0,
           Prefs(Some(isoformat(UTC(36, 9, 0, 0))), None)),
      Call("Negative", <<Bob>>, -30,
           Prefs(Some(isoformat(UTC(36, 9, 0, 0))), None)) }

FindCalls ==
    { Find(<<Alice, Bob>>, 60, Some(1)),
      Find(<<Stranger>>, 30, Some(0)) }

InvalidFindCalls ==
    { Find(<<>>, 30, Some(0)),
      Find(<<Alice>>, 0, Some(0)),
      Find(<<Alice>>, -30, Some(0)) }

\* query intervals around the sample meeting Monday 10:00:30 - 11:00:30
QueryRanges ==
    { <<MondayHalfPastTen, UTC(35, 11, 30, 0)>>,
      <<UTC(35, 11, 0, 30), UTC(35, 12, 0, 0)>>,
      <<UTC(35, 9, 0, 0), UTC(35, 10, 0, 30)>>,
      <<UTC(35, 10, 59, 45), UTC(35, 11, 0, 45)>> }

DetectCalls ==
    {Detect(u, r) : u \in {Alice, Stranger}, r \in QueryRanges}
    \cup {Detect(Bob, <<UTC(35, 14, 0, 0), UTC(35, 15, 0, 0)>>),
          Detect(Alice, <<Naive(35, 10, 30, 0), Naive(35, 11, 30, 0)>>)}

\* the ids the store can hold, and 0, which it never holds
ScoreIds == 0..(SampleSize + MaxCreated)

Analyze(user_id, period) == [user_id |-> user_id, period |-> period]

AnalyzeCalls ==
    {Analyze(u, p) : u \in {Alice, Stranger}, p \in {"week", "month", "year"}}

TopicPlanning == <<"Q", "3", " ", "P", "l", "a", "n", "n", "i", "n", "g">>

TopicStandup == <<"D", "a", "i", "l", "y", " ", "S", "t", "a", "n", "d", "u", "p">>

TopicBudget == <<"B", "u", "d", "g", "e", "t">>

Agenda(meeting_topic, participants) == [meeting_topic |-> meeting_topic, participants |-> participants]

AgendaCalls ==
    { Agenda(TopicPlanning, <<Alice, Bob>>),
      Agenda(TopicStandup, <<Alice>>),
      Agenda(TopicBudget, <<>>) }

WorkloadCalls == { <<>>, <<Stranger>>, <<Alice, Bob>> }

OptimizeCalls == {Alice, Bob, Stranger}

\* a meeting for a user without preferences, a negative duration larger than
\* the frequency share of the workload, and a start without offset five
\* weeks before the clock
AdviceCreateCalls ==
    { Call("Sync", <<Stranger, Alice>>, 60,
           Prefs(Some(isoformat(UTC(36, 17, 30, 0))), Some("Roadmap"))),
      Call("Rewind", <<Stranger>>, -120,
           Prefs(Some(isoformat(UTC(36, 9, 0, 0))), None)),
      Call("Archive", <<Stranger>>, 30,
           Prefs(Some(isoformat(Naive(0, 10, 0, 0))), None)) }

Next ==
    \/ \E c \in CreateCalls \cup InvalidCreateCalls :
          CreateMeeting(c.title, c.participants, c.duration, c.preferences)
    \/ \E c \in FindCalls \cup InvalidFindCalls :
          FindOptimalSlots(c.participants, c.duration, c.date_range)
    \/ \E c \in DetectCalls :
          DetectSchedulingConflicts(c.user_id, c.time_range)
    \/ \E id \in ScoreIds : ScoreMeetingEffectiveness(id)

Spec == Init /\ [][Next]_vars

\* the tool calls with well-formed and ill-formed preferred times only
NextFrame ==
    \/ \E c \in CreateCalls :
          CreateMeeting(c.title, c.participants, c.duration, c.preferences)
    \/ \E c \in FindCalls :
          FindOptimalSlots(c.participants, c.duration, c.date_range)
    \/ \E c \in DetectCalls :
          DetectSchedulingConflicts(c.user_id, c.time_range)
    \/ \E id \in ScoreIds : ScoreMeetingEffectiveness(id)

SpecFrame == Init /\ [][NextFrame]_vars

\* all eight tools
NextAdvice ==
    \/ \E c \in AdviceCreateCalls :
          CreateMeeting(c.title, c.participants, c.duration, c.preferences)
    \/ FindOptimalSlots(<<Alice, Bob>>, 60, Some(1))
    \/ \E user_id \in {Alice, Stranger} :
          \E time_range \in {<<MondayHalfPastTen, UTC(35, 11, 30, 0)>>,
                              <<NotATime, NotATime>>} :
              DetectSchedulingConflicts(user_id, time_range)
    \/ \E id \in 0..1 : ScoreMeetingEffectiveness(id)
    \/ \E c \in AnalyzeCalls : AnalyzeMeetingPatterns(c.user_id, c.period)
    \/ \E c \in AgendaCalls :
          GenerateAgendaSuggestions(c.meeting_topic, c.participants)
    \/ \E team_members \in WorkloadCalls :
          CalculateWorkloadBalance(team_members)
    \/ \E user_id \in OptimizeCalls : OptimizeMeetingSchedule(user_id)

SpecAdvice == Init /\ [][NextAdvice]_vars

Request(name, arguments) == [name |-> name, arguments |-> arguments]

\* the two writers of the store, of which the same one may wait twice, and
\* two readers
Requests ==
    { Request("create_meeting",
              Call("Sync", <<Alice, Stranger>>, 60,
                   Prefs(Some(isoformat(MondayHalfPastTen)), Some("Roadmap")))),
      Request("score_meeting_effectiveness", [meeting_id |-> 1]),
      Request("detect_scheduling_conflicts",
              Detect(Alice, <<isoformat(MondayHalfPastTen),
                              isoformat(UTC(35, 11, 30, 0))>>)),
      Request("analyze_meeting_patterns", Analyze(Alice, "month")) }

NextConcurrent ==
    \/ \E r \in Requests : Receive(r.name, r.arguments)
    \/ \E i \in 1..MaxInFlight : Handle(i)

SpecConcurrent == Init /\ [][NextConcurrent]_vars

\* meetings of Alice after her sample meeting of Monday 10:00:30 - 11:00:30:
\* starting as it ends, 10 minutes and 15 minutes after it ends, and while
\* it runs
BreakCreateCalls ==
    { Call("Next", <<Alice>>, 30,
           Prefs(Some(isoformat(UTC(35, 11, 0, 30))), None)),
      Call("Follow", <<Alice>>, 30,
           Prefs(Some(isoformat(UTC(35, 11, 10, 30))), None)),
      Call("Later", <<Alice>>, 30,
           Prefs(Some(isoformat(UTC(35, 11, 15, 30))), None)),
      Call("Clash", <<Alice, Bob>>, 30,
           Prefs(Some(isoformat(UTC(35, 10, 30, 30))), None)) }

NextBreaks ==
    \/ \E c \in BreakCreateCalls :
          CreateMeeting(c.title, c.participants, c.duration, c.preferences)
    \/ \E user_id \in {Alice, Bob} : OptimizeMeetingSchedule(user_id)

SpecBreaks == Init /\ [][NextBreaks]_vars

\* schedule analyses of a month of 3 and of a month of 150 meetings, each
\* count zero or not; only the month of 150 has days over the daily limit
Analyses ==
    {ScheduleAnalysis(total, heavy_days, off_hours_meetings, back_to_back,
                      long_meetings) :
        total \in {3, 150}, heavy_days \in {0, 2}, off_hours_meetings \in {0, 1},
        back_to_back \in {0, 1}, long_meetings \in {0, 3}}
    \ {ScheduleAnalysis(3, 2, off_hours_meetings, back_to_back,
                        long_meetings) :
        off_hours_meetings \in {0, 1}, back_to_back \in {0, 1},
        long_meetings \in {0, 3}}

NextSavings ==
    \/ \E c \in BreakCreateCalls :
          CreateMeeting(c.title, c.participants, c.duration, c.preferences)
    \/ \E user_id \in {Alice, Bob} : OptimizeMeetingSchedule(user_id)
    \/ \E analysis \in Analyses : Advise(Alice, analysis)

SpecSavings == Init /\ [][NextSavings]_vars

\* topics that hold words of two templates, in either order of appearance,
\* and topics of one template in mixed case
TopicReviewPlanning ==
    <<"R", "e", "v", "i", "e", "w", " ", "P", "L", "A", "N", "N", "I", "N",
    "G">>

TopicStrategySync ==
    <<"S", "t", "r", "a", "t", "e", "g", "y", " ", "s", "y", "n", "c">>

TopicIdeationReview ==
    <<"I", "d", "e", "a", "t", "i", "o", "n", " ", "R", "e", "v", "i", "e",
    "w">>

TopicSyncBrainstorm ==
    <<"S", "y", "n", "c", ",", " ", "b", "r", "a", "i", "n", "s", "t", "o",
    "r", "m">>

TopicRetrospective ==
    <<"R", "e", "t", "r", "o", "s", "p", "e", "c", "t", "i", "v", "e">>

TopicIdeation == <<"I", "D", "E", "A", "T", "I", "O", "N">>

AgendaTopics ==
    {TopicPlanning, TopicStandup, TopicBudget, TopicReviewPlanning,
     TopicStrategySync, TopicIdeationReview, TopicSyncBrainstorm,
     TopicRetrospective, TopicIdeation, <<>>}

NextAgenda ==
    \/ \E c \in AdviceCreateCalls :
          CreateMeeting(c.title, c.participants, c.duration, c.preferences)
    \/ \E meeting_topic \in AgendaTopics, participants \in {<<>>, <<Alice, Bob>>} :
          GenerateAgendaSuggestions(meeting_topic, participants)

SpecAgenda == Init /\ [][NextAgenda]_vars

\* A user booked from Monday 00:00 to the Monday after at 17:00, which leaves
\* the two last candidates of the scan, or at 18:00, which leaves none; a
\* whole Tuesday of Alice; a start without offset; and calls that leave the
\* choice of the start to the slot search
PlacementCreateCalls ==
    { Call("Retreat", <<Stranger>>, 7 * 1440 + 17 * 60,
           Prefs(Some(isoformat(UTC(35, 0, 0, 0))), None)),
      Call("Sabbatical", <<Stranger>>, 7 * 1440 + 18 * 60,
           Prefs(Some(isoformat(UTC(35, 0, 0, 0))), None)),
      Call("Workshop", <<Alice>>, 480,
           Prefs(Some(isoformat(UTC(36, 9, 0, 0))), None)),
      Call("Sync", <<Alice>>, 45,
           Prefs(Some(isoformat(Naive(35, 10, 30, 0))), None)),
      Call("Catchup", <<Stranger>>, 30, Prefs(None, None)),
      Call("Checkin", <<Alice, Bob>>, 60, Prefs(Some(EmptyText), None)),
      Call("Pairing", <<Stranger, Alice>>, 30, Prefs(None, Some("Roadmap"))) }

\* queries for the two candidates the retreat leaves and for the first
\* candidates of Tuesday and Wednesday
PlacementDetectCalls ==
    {Detect(u, <<s, AddMinutes(s, 30)>>) :
        u \in {Alice, Bob, Stranger},
        s \in {UTC(42, 17, 0, 0), UTC(42, 17, 30, 0), UTC(36, 9, 0, 0),
               UTC(37, 9, 0, 0)}}

NextPlacement ==
    \/ \E c \in PlacementCreateCalls :
          CreateMeeting(c.title, c.participants, c.duration, c.preferences)
    \/ \E c \in PlacementDetectCalls :
          DetectSchedulingConflicts(c.user_id, c.time_range)

SpecPlacement == Init /\ [][NextPlacement]_vars

\* bookings of a whole working day, and a start without offset
SlotCreateCalls ==
    { Call("Workshop", <<Alice>>, 480,
           Prefs(Some(isoformat(UTC(35, 9, 0, 0))), None)),
      Call("Offsite", <<Stranger>>, 600,
           Prefs(Some(isoformat(UTC(35, 8, 0, 0))), None)),
      Call("Sync", <<Alice>>, 45,
           Prefs(Some(isoformat(Naive(35, 10, 30, 0))), None)) }

SlotFindCalls ==
    { Find(<<Alice>>, 30, Some(0)),
      Find(<<Alice>>, 60, Some(1)),
      Find(<<Stranger, Stranger, Stranger, Stranger>>, 60, Some(0)),
      Find(<<Stranger, Stranger, Stranger, Stranger, Stranger>>, 60, Some(0)),
      Find(<<Alice, Bob>>, 60, None),
      Find(<<Alice, Stranger, Bob>>, 30, Some(0)),
      Find(<<Alice, Stranger, Alice>>, 30, Some(0)) }

\* the slot optimizer over stores with fully booked days
NextSlots ==
    \/ \E c \in SlotCreateCalls :
          CreateMeeting(c.title, c.participants, c.duration, c.preferences)
    \/ \E c \in SlotFindCalls :
          FindOptimalSlots(c.participants, c.duration, c.date_range)

SpecSlots == Init /\ [][NextSlots]_vars

\* The scorer over sample meetings of several types and lengths, created on
\* a Tuesday at midnight or at 14:30
ScoreClocks == {UTC(36, 0, 0, 0), UTC(36, 14, 30, 0)}

ScoredTypes == {"standup", "planning"}

ScoredDurations == {45, 120}

ScoredStores(prefs, clock) ==
    { <<SampleMeeting(prefs, clock, 1, <<Alice, Bob>>, 30, 10, 0, duration,
                      "Meeting 1", meeting_type, Float(7250, 0))>> :
        duration \in ScoredDurations, meeting_type \in ScoredTypes }

InitScore ==
    /\ user_preferences \in SamplePreferences
    /\ now \in ScoreClocks
    /\ meetings \in ScoredStores(user_preferences, now)
    /\ last = NoCall
    /\ inflight = <<>>

\* a short meeting of one participant at 08:00, a long one of eleven at 09:00
ScoreCreateCalls ==
    { Call("Huddle", <<Alice>>, 20,
           Prefs(Some(isoformat(UTC(37, 8, 0, 0))), None)),
      Call("Summit", <<Alice, Bob, Alice, Bob, Alice, Bob, Alice, Bob, Alice,
                       Bob, Stranger>>, 150,
           Prefs(Some(isoformat(UTC(37, 9, 0, 0))), Some("Year ahead"))) }

NextScore ==
    \/ \E c \in ScoreCreateCalls :
          CreateMeeting(c.title, c.participants, c.duration, c.preferences)
    \/ \E id \in ScoreIds : ScoreMeetingEffectiveness(id)

SpecScore == InitScore /\ [][NextScore]_vars

-----------------------------------------------------------------------------
(* Properties of the store, of the availability check and of the conflict *)
(* report                                                                  *)

\* s < m.end_time and m.start_time < e, read on the instants; an aware and
\* a naive value are not ordered
StrictOverlap(s, e, m) ==
    /\ Comparable(s, m.end_time) /\ Instant(s) < Instant(m.end_time)
    /\ Comparable(m.start_time, e) /\ Instant(m.start_time) < Instant(e)

IsAware(time_range) == time_range[1].aware /\ time_range[2].aware

QueryUsers == {Alice, Bob, Stranger}

\* C1: every stored meeting ends strictly after it starts, whatever the
\* duration passed to create_meeting was.
C1_EndAfterStart ==
    \A i \in 1..Len(meetings) :
        Instant(meetings[i].end_time) > Instant(meetings[i].start_time)

\* C2: for every user and every query interval of offset-carrying instants,
\* _is_participant_available returns False exactly when some stored meeting
\* of the user strictly overlaps the interval.
C2_UnavailableIffOverlap ==
    \A u \in QueryUsers, r \in QueryRanges :
        (is_participant_available(meetings, u, r[1], r[2]) = "False")
        <=> \E i \in 1..Len(meetings) :
                /\ InList(u, meetings[i].participants)
                /\ StrictOverlap(r[1], r[2], meetings[i])

MinOf(a, b) == IF a < b THEN a ELSE b

MaxOf(a, b) == IF a > b THEN a ELSE b

\* max(0, whole minutes of min(e, m.end) - max(s, m.start))
WholeOverlapMinutes(s, e, m) ==
    MaxOf(0, (MinOf(Instant(e), Instant(m.end_time))
              - MaxOf(Instant(s), Instant(m.start_time))) \div 60)

\* the positions of the stored meetings of user u that overlap [s, e)
Overlapping(u, s, e) ==
    {i \in 1..Len(meetings) :
        InList(u, meetings[i].participants) /\ StrictOverlap(s, e, meetings[i])}

Listed(conflicts, id) == \E k \in 1..Len(conflicts) : conflicts[k].meeting_id = id

\* C3: detect_scheduling_conflicts on an interval of offset-carrying
\* instants succeeds and lists exactly the stored meetings of the user that
\* overlap the interval, each once and with overlap_minutes = max(0, whole
\* minutes of the intersection); conflict_count is the number listed and
\* has_conflicts says whether it is positive.
C3_ConflictsAreTheOverlaps ==
    (last.op = "detect_scheduling_conflicts" /\ IsAware(last.args.time_range))
    => /\ last.result.success
       /\ LET s == last.args.time_range[1]
              e == last.args.time_range[2]
              hits == Overlapping(last.args.user_id, s, e)
              conflicts == last.result.conflicts
          IN  /\ Len(conflicts) = Cardinality(hits)
              /\ \A i \in hits : Listed(conflicts, meetings[i].id)
              /\ \A k \in 1..Len(conflicts) :
                    \E i \in hits :
                        /\ conflicts[k].meeting_id = meetings[i].id
                        /\ conflicts[k].overlap_minutes
                           = WholeOverlapMinutes(s, e, meetings[i])
              /\ last.result.conflict_count = Len(conflicts)
              /\ last.result.has_conflicts = (last.result.conflict_count > 0)

InNoMeeting(u) ==
    \A i \in 1..Len(meetings) : ~InList(u, meetings[i].participants)

\* C4: detect_scheduling_conflicts for a user who takes part in no stored
\* meeting succeeds with has_conflicts = false, conflict_count = 0 and an
\* empty conflict list.
C4_NoMeetingsNoConflicts ==
    (last.op = "detect_scheduling_conflicts" /\ InNoMeeting(last.args.user_id))
    => /\ last.result.success
       /\ ~last.result.has_conflicts
       /\ last.result.conflict_count = 0
       /\ last.result.conflicts = <<>>

\* C4 witness: the report for a user without preference record and without
\* meetings, asked of a store that holds a created meeting whose start has
\* no offset.
C4_Witness ==
    /\ last.op = "detect_scheduling_conflicts"
    /\ last.args.user_id = Stranger
    /\ Stranger \notin DOMAIN user_preferences
    /\ InNoMeeting(Stranger)
    /\ \E i \in 1..Len(meetings) : ~meetings[i].start_time.aware
    /\ last.result.success

-----------------------------------------------------------------------------
(* Properties of the input checks and of the effectiveness scorer *)

\* C8: create_meeting and find_optimal_slots return a failure result when
\* the participant list is empty or the duration is zero or negative.
C8_InvalidInputFails ==
    (/\ last.op \in {"create_meeting", "find_optimal_slots"}
     /\ (last.args.participants = <<>> \/ last.args.duration <= 0))
    => ~last.result.success

\* C9: a score_meeting_effectiveness call with an id that is not in the
\* store returns a failure result and leaves every stored meeting as it was.
C9_UnknownIdFailsAndKeepsStore ==
    [][(/\ last'.op = "score_meeting_effectiveness"
        /\ ~HasMeeting(meetings, last'.args.meeting_id))
       => (~last'.result.success /\ meetings' = meetings)]_vars

\* C9 witness: the failure returned for id 0 by a store that holds scored
\* and created meetings.
C9_Witness ==
    /\ last.op = "score_meeting_effectiveness"
    /\ ~HasMeeting(meetings, last.args.meeting_id)
    /\ ~last.result.success
    /\ Len(meetings) > SampleSize
    /\ \E i \in 1..Len(meetings) : meetings[i].effectiveness_score # None

\* a meeting with its score field blanked
ButScore(meeting) == [meeting EXCEPT !.effectiveness_score = None]

\* 0.25, 0.20, 0.20, 0.20 and 0.15 of the five components, in thousandths
WeightedSum(c) ==
      25 * c.duration_efficiency + 20 * c.participant_engagement
    + 20 * c.agenda_adherence + 20 * c.outcome_clarity
    + 15 * c.time_management

\* C10: no step removes a meeting or changes a field of a stored meeting
\* other than effectiveness_score, and a successful
\* score_meeting_effectiveness(id) changes the store in exactly one place:
\* the effectiveness_score of the meeting with that id becomes the double
\* that stands for the weighted sum of the five components returned.
C10_OnlyTheScoreChanges ==
    [][/\ Len(meetings') >= Len(meetings)
       /\ \A i \in 1..Len(meetings) :
             ButScore(meetings'[i]) = ButScore(meetings[i])
       /\ (last'.op = "score_meeting_effectiveness" /\ last'.result.success)
          => /\ Len(meetings') = Len(meetings)
             /\ \A i \in 1..Len(meetings) :
                   IF meetings[i].id = last'.args.meeting_id
                   THEN \E err \in {-1, 0, 1} :
                           meetings'[i].effectiveness_score =
                              Some(Float(WeightedSum(
                                             last'.result.score_components),
                                         err))
                   ELSE meetings'[i] = meetings[i]]_vars

\* C10 witness: a created meeting has been scored while another meeting of
\* the store still has the score it had.
C10_Witness ==
    /\ last.op = "score_meeting_effectiveness"
    /\ last.result.success
    /\ \E i, j \in 1..Len(meetings) :
          /\ i > SampleSize
          /\ meetings[i].id = last.args.meeting_id
          /\ meetings[i].effectiveness_score # None
          /\ meetings[i].effectiveness_score[1].milli
             = WeightedSum(last.result.score_components)
          /\ j # i
          /\ j > SampleSize
          /\ meetings[j].effectiveness_score = None

-----------------------------------------------------------------------------
(* Properties of the slot optimizer *)

FoundSlots == last.op = "find_optimal_slots" /\ last.result.success

\* start a is earlier than start b (both written by isoformat in UTC)
StartsBefore(a, b) == a.date < b.date \/ (a.date = b.date /\ a.time < b.time)

\* C5: find_optimal_slots returns at most 10 slots in order of
\* non-increasing score, and of two slots with the same score the one with
\* the earlier start comes first.
C5_TopTenSorted ==
    FoundSlots
    => /\ Len(last.result.slots) <= 10
       /\ \A k \in 1..(Len(last.result.slots) - 1) :
             LET a == last.result.slots[k]
                 b == last.result.slots[k + 1]
             IN  \/ a.score > b.score
                 \/ /\ a.score = b.score
                    /\ StartsBefore(a.start_time, b.start_time)

\* C5 witness: ten slots returned out of more, with a tie and a drop in
\* score among them.
C5_Witness ==
    /\ FoundSlots
    /\ Len(last.result.slots) = 10
    /\ last.result.total_analyzed > 10
    /\ \E k \in 1..9 : last.result.slots[k].score = last.result.slots[k + 1].score
    /\ \E k \in 1..9 : last.result.slots[k].score > last.result.slots[k + 1].score

\* the dates find_optimal_slots scans for the last call, weekdays only
ScannedWeekdays ==
    {d \in DateOf(now)..(DateOf(now) + DaysAhead(last.args.date_range)) :
        d % 7 < 5}

\* user u has a stored meeting that covers 09:00-17:00 of date d
BookedNineToFive(u, d) ==
    \E i \in 1..Len(meetings) :
        /\ InList(u, meetings[i].participants)
        /\ meetings[i].start_time.aware
        /\ Instant(meetings[i].start_time) <= Instant(UTC(d, 9, 0, 0))
        /\ Instant(meetings[i].end_time) >= Instant(UTC(d, 17, 0, 0))

\* the last call asked for one participant who is booked 09:00-17:00 on
\* every weekday scanned
FullyBookedAlone ==
    /\ last.op = "find_optimal_slots"
    /\ Len(last.args.participants) = 1
    /\ ScannedWeekdays # {}
    /\ \A d \in ScannedWeekdays : BookedNineToFive(last.args.participants[1], d)

\* C6 as stated: for a participant booked 09:00-17:00 on every candidate
\* day, find_optimal_slots for that participant alone returns zero slots.
C6_FullyBookedNoSlots ==
    (FullyBookedAlone /\ last.result.success) => last.result.slots = <<>>

\* the slot starts at or after 09:00 and before 17:00
InBookedHours(slot) == 9 * 3600 <= slot.start_time.time /\ slot.start_time.time < 17 * 3600

\* C6 amended: for a participant booked 09:00-17:00 on every weekday of the
\* range, a successful find_optimal_slots for that participant alone drops
\* no candidate (total_analyzed is 20 per weekday, the slot list is not
\* empty), and every returned slot that starts between 09:00 and 17:00
\* lists no available participant.
C6_FullyBookedKeepsSlots ==
    (FullyBookedAlone /\ last.result.success)
    => /\ last.result.slots # <<>>
       /\ last.result.total_analyzed = 20 * Cardinality(ScannedWeekdays)
       /\ \A k \in 1..Len(last.result.slots) :
             InBookedHours(last.result.slots[k])
             => last.result.slots[k].available_participants = <<>>

\* C6 witness: slots returned for the fully booked participant, one of them
\* inside the booking.
C6_Witness ==
    /\ FullyBookedAlone
    /\ last.result.success
    /\ \E k \in 1..Len(last.result.slots) : InBookedHours(last.result.slots[k])

\* C7: total_analyzed is the number of candidates examined, 20 for every
\* weekday of the range.
C7_TotalCountsEveryCandidate ==
    FoundSlots => last.result.total_analyzed = 20 * Cardinality(ScannedWeekdays)

-----------------------------------------------------------------------------
(* Properties of the effectiveness scorer *)

ScoreSucceeded == last.op = "score_meeting_effectiveness" /\ last.result.success

\* the meeting the last call scored
ScoredMeeting == meetings[IndexOf(meetings, last.args.meeting_id)]

ComponentValues(c) ==
    {c.duration_efficiency, c.participant_engagement, c.agenda_adherence,
     c.outcome_clarity, c.time_management}

\* score <= milli thousandths
AtMost(score, milli) ==
    score.milli < milli \/ (score.milli = milli /\ score.err <= 0)

\* C11: each of the five components (in tenths) is at least 1.0, the
\* weights are not negative and sum to 1.0, and the overall score that
\* score_meeting_effectiveness computes and stores lies between the smallest
\* and the largest component.
C11_ComponentsFloorAndConvex ==
    ScoreSucceeded
    => /\ \A v \in ComponentValues(last.result.score_components) : v >= 10
       /\ \A i \in 1..Len(Components) : Weights[Components[i]] >= 0
       /\ Weights.duration_efficiency + Weights.participant_engagement
          + Weights.agenda_adherence + Weights.outcome_clarity
          + Weights.time_management = 100
       /\ \E lo, hi \in ComponentValues(last.result.score_components) :
             /\ \A v \in ComponentValues(last.result.score_components) :
                   lo <= v /\ v <= hi
             /\ AtLeast(ScoredMeeting.effectiveness_score[1], lo * 100)
             /\ AtMost(ScoredMeeting.effectiveness_score[1], hi * 100)

\* the last call scored a 45-minute standup that starts on a Tuesday at 10:00
StandupTuesdayAtTen ==
    /\ ScoreSucceeded
    /\ ScoredMeeting.meeting_type = "standup"
    /\ ScoredMeeting.end_time = AddMinutes(ScoredMeeting.start_time, 45)
    /\ WeekdayOf(ScoredMeeting.start_time) = 1
    /\ ScoredMeeting.start_time.wall % SecondsPerDay = 10 * 3600

\* C12 as stated: for a 45-minute standup starting at 10:00 on a Tuesday the
\* duration efficiency component is 6.0 and the agenda adherence component
\* is 8.5.
C12_StandupScoresSix ==
    StandupTuesdayAtTen
    => /\ last.result.score_components.duration_efficiency = 60
       /\ last.result.score_components.agenda_adherence = 85

\* C12 amended: for a 45-minute standup starting at 10:00 on a Tuesday the
\* duration efficiency component is 9.0 (45 minutes lie in the 30-60 band)
\* and the agenda adherence component is 8.5.
C12_StandupScoresNine ==
    StandupTuesdayAtTen
    => /\ last.result.score_components.duration_efficiency = 90
       /\ last.result.score_components.agenda_adherence = 85

\* C12 witness: such a standup has been scored.
C12_Witness ==
    /\ StandupTuesdayAtTen
    /\ last.result.effectiveness_rating = "Excellent"

(* Properties of the advice tools *)

WorkloadSucceeded ==
    /\ last.op = "calculate_workload_balance"
    /\ last.result.success

\* C13: in every store that create_meeting calls can build, the
\* workload_score that calculate_workload_balance reports for each team
\* member lies between 0 and 100 (0 and 1000 tenths)
C13_WorkloadScoreInRange ==
    WorkloadSucceeded =>
        \A member \in DOMAIN last.result.workload_analysis :
            /\ last.result.workload_analysis[member].workload_score >= 0
            /\ last.result.workload_analysis[member].workload_score <= 1000

TakesPart(user_id) ==
    \E i \in 1..Len(meetings) : InList(user_id, meetings[i].participants)

\* C14: optimize_meeting_schedule for a user without a preference record
\* returns the failure "User preferences not found" and changes neither the
\* meetings nor the preferences, whether or not the user takes part in a
\* stored meeting
C14_NoPreferencesFails ==
    [][(/\ last'.op = "optimize_meeting_schedule"
        /\ last'.args.user_id \notin DOMAIN user_preferences)
       => /\ last'.result = Failure("User preferences not found")
          /\ meetings' = meetings
          /\ user_preferences' = user_preferences]_vars

\* the failure for a user who takes part in a stored meeting
C14_Witness ==
    /\ last.op = "optimize_meeting_schedule"
    /\ last.args.user_id \notin DOMAIN user_preferences
    /\ TakesPart(last.args.user_id)
    /\ ~last.result.success

OptimizeSucceeded ==
    /\ last.op = "optimize_meeting_schedule"
    /\ last.result.success

TimeBlockings(recommendations) ==
    {i \in 1..Len(recommendations) : recommendations[i].type = "time_blocking"}

\* C15: every successful result of optimize_meeting_schedule holds the
\* time_blocking recommendation exactly once, as the last recommendation
C15_TimeBlockingOnceAndLast ==
    OptimizeSucceeded =>
        TimeBlockings(last.result.optimization_recommendations)
            = {Len(last.result.optimization_recommendations)}

\* a successful result with other recommendations before time_blocking
C15_Witness ==
    /\ OptimizeSucceeded
    /\ Len(last.result.optimization_recommendations) > 1
    /\ last.result.optimization_recommendations[1].type # "time_blocking"

\* the meeting may start at or after the cutoff: by its instant when it has
\* an offset, in some zone between UTC-12 and UTC+14 when it has none
MayStartSince(meeting, cutoff) ==
    IF meeting.start_time.aware
    THEN Instant(meeting.start_time) >= Instant(cutoff)
    ELSE meeting.start_time.wall + 12 * 3600 >= Instant(cutoff)

NoMeetingsInPeriod(user_id, period) ==
    \A i \in 1..Len(meetings) :
        InList(user_id, meetings[i].participants)
            => ~MayStartSince(meetings[i], CutoffDate(now, period))

\* C16: analyze_meeting_patterns for a user with no meetings in the period,
\* an unknown user included, returns success with zero counts, average
\* duration 0, average effectiveness 0 and the single insight that no
\* meetings were found
C16_NoMeetingsZeroAnalysis ==
    (/\ last.op = "analyze_meeting_patterns"
     /\ NoMeetingsInPeriod(last.args.user_id, last.args.period))
    => /\ last.result.success
       /\ last.result.analysis.total_meetings = 0
       /\ last.result.analysis.total_hours = 0
       /\ last.result.analysis.average_meeting_duration = 0
       /\ last.result.analysis.meetings_per_day = 0
       /\ last.result.analysis.average_effectiveness_score = 0
       /\ last.result.analysis.productivity_insights
             = <<"No meetings found for analysis.">>

-----------------------------------------------------------------------------
(* Properties of the store *)

CreateSucceeded ==
    /\ last.op = "create_meeting"
    /\ last.result.success

\* the meeting holds what the last create_meeting call passed in
HoldsArguments(meeting) ==
    /\ meeting.title = last.args.title
    /\ meeting.participants = last.args.participants
    /\ (last.args.preferences.preferred_time \notin {None, Some(EmptyText)}
           => meeting.start_time
                = fromisoformat(last.args.preferences.preferred_time[1]))
    /\ meeting.end_time = AddMinutes(meeting.start_time, last.args.duration)
    /\ meeting.agenda = last.args.preferences.agenda

\* C17: after create_meeting succeeds and returns the id k, the store holds
\* under k a meeting with the title, the participants, the start and the
\* agenda passed in, end = start + duration and the first participant as
\* organizer, and that meeting is the record returned
C17_StoredAsPassedIn ==
    CreateSucceeded =>
        \E i \in 1..Len(meetings) :
            /\ meetings[i].id = last.result.meeting_id
            /\ HoldsArguments(meetings[i])
            /\ Len(last.args.participants) > 0
            /\ meetings[i].organizer = last.args.participants[1]
            /\ meetings[i] = last.result.meeting

MeetingFields ==
    {"id", "title", "participants", "start_time", "end_time", "timezone_str",
     "organizer", "agenda", "location", "meeting_type", "effectiveness_score",
     "created_at"}

\* a record with every field of Meeting, its times being datetimes
Complete(meeting) ==
    /\ DOMAIN meeting = MeetingFields
    /\ IsDatetime(meeting.start_time)
    /\ IsDatetime(meeting.end_time)
    /\ IsDatetime(meeting.created_at)

StoredScore(ms, meeting_id) == ms[IndexOf(ms, meeting_id)].effectiveness_score

\* C18: with requests waiting in any number and handled in any order, each
\* step leaves only complete records in the store; the step that handles a
\* create inserts its whole record, the step that handles a score write
\* leaves the score its own call computed, whatever was written before,
\* and touches no other meeting
C18_WritesAreAtomic ==
    [][/\ \A i \in 1..Len(meetings') : Complete(meetings'[i])
       /\ (/\ Len(inflight') < Len(inflight)
           /\ last'.op = "create_meeting"
           /\ last'.result.success)
             => /\ meetings' = Append(meetings, last'.result.meeting)
       /\ (/\ Len(inflight') < Len(inflight)
           /\ last'.op = "score_meeting_effectiveness"
           /\ last'.result.success)
             => /\ Round2(StoredScore(meetings', last'.args.meeting_id)[1])
                     = last'.result.overall_score
                /\ Len(meetings') = Len(meetings)
                /\ \A i \in 1..Len(meetings) :
                      meetings[i].id # last'.args.meeting_id
                          => meetings'[i] = meetings[i]]_vars

\* a score has been written to a meeting that had one, while another score
\* request for the same meeting still waits
C18_Witness ==
    /\ last.op = "score_meeting_effectiveness"
    /\ last.result.success
    /\ last.args.meeting_id = 1
    /\ \E i \in 1..Len(inflight) :
          /\ inflight[i].name = "score_meeting_effectiveness"
          /\ inflight[i].arguments.meeting_id = 1

-----------------------------------------------------------------------------
(* Properties of the time arguments *)

\* a string that is an ISO-8601 instant with an explicit offset
InstantText(str) == ParsesAsIso(str) /\ str.tz # ""

\* a datetime with an offset
InstantValue(v) == IsDatetime(v) /\ v.aware

\* C19: create_meeting with a preferred_time that is no ISO-8601 instant
\* with an explicit offset, and detect_scheduling_conflicts with a time_range
\* value that is no such instant, return a failure result
C19_InvalidTimeFails ==
    /\ (/\ last.op = "create_meeting"
        /\ last.args.preferences.preferred_time # None
        /\ ~InstantText(last.args.preferences.preferred_time[1]))
          => ~last.result.success
    /\ (/\ last.op = "detect_scheduling_conflicts"
        /\ \E i \in 1..Len(last.args.time_range) :
              ~InstantValue(last.args.time_range[i]))
          => ~last.result.success

-----------------------------------------------------------------------------
(* Frame of the tools *)

ReadingTools ==
    {"find_optimal_slots", "detect_scheduling_conflicts",
     "analyze_meeting_patterns", "generate_agenda_suggestions",
     "calculate_workload_balance", "optimize_meeting_schedule"}

\* C20: a step of find_optimal_slots, detect_scheduling_conflicts,
\* analyze_meeting_patterns, generate_agenda_suggestions,
\* calculate_workload_balance or optimize_meeting_schedule leaves the
\* meetings and the preferences as they were, and no step of any tool
\* changes the preferences
C20_ReadingToolsKeepTheStore ==
    [][/\ user_preferences' = user_preferences
       /\ last'.op \in ReadingTools => meetings' = meetings]_vars

\* a successful optimize_meeting_schedule for a user with a preference
\* record, in a store that holds a created meeting of that user
C20_Witness ==
    /\ last.op = "optimize_meeting_schedule"
    /\ last.result.success
    /\ last.args.user_id \in DOMAIN user_preferences
    /\ \E i \in 1..Len(meetings) :
          /\ i > SampleSize
          /\ InList(last.args.user_id, meetings[i].participants)

-----------------------------------------------------------------------------
(* Properties of the meeting map *)

Ids(ms) == {ms[i].id : i \in 1..Len(ms)}

\* C21: a successful create_meeting adds one record under an id that was
\* not in the store and leaves the records there as they were; after every
\* step of any tool the store holds one record per id and every id it held
\* before
C21_CreateAddsOneFreshRecord ==
    [][/\ (last'.op = "create_meeting" /\ last'.result.success)
             => /\ last'.result.meeting_id \notin Ids(meetings)
                /\ Len(meetings') = Len(meetings) + 1
                /\ \A i \in 1..Len(meetings) : meetings'[i] = meetings[i]
                /\ meetings'[Len(meetings')].id = last'.result.meeting_id
       /\ Cardinality(Ids(meetings')) = Len(meetings')
       /\ Ids(meetings) \subseteq Ids(meetings')]_vars

\* a second meeting has been created with success
C21_Witness ==
    /\ last.op = "create_meeting"
    /\ last.result.success
    /\ Len(meetings) = SampleSize + 2

-----------------------------------------------------------------------------
(* Properties of the slot scores *)

\* p takes part in a stored meeting that overlaps [s, e)
Busy(p, s, e) ==
    \E i \in 1..Len(meetings) :
        /\ InList(p, meetings[i].participants)
        /\ StrictOverlap(s, e, meetings[i])

\* the score the rule gives to the slot [s, e) for the participants asked
\* for, before the cut at 0
RuleScore(participants, s, e) ==
    LET unavailable ==
            Cardinality({i \in 1..Len(participants) : Busy(participants[i], s, e)})
        hour == HourOf(s)
        weekday == WeekdayOf(s)
    IN  100 - 30 * unavailable
        + (IF unavailable = 0 THEN 50 ELSE 0)
        + (IF hour \in 9..16 THEN 20 ELSE IF hour \in {8, 17} THEN 10 ELSE -20)
        - (IF hour = 12 THEN 15 ELSE 0)
        + (IF weekday \in {1, 2, 3} THEN 10
           ELSE IF weekday \in {0, 4} THEN 5 ELSE 0)

\* the start times of the candidates of the last find_optimal_slots call
CandidateStarts ==
    {UTC(d, 8 + (k - 1) \div 2, 30 * ((k - 1) % 2), 0) :
        d \in ScannedWeekdays, k \in 1..20}

\* C22: every slot returned has the score of the rule, which is positive,
\* and lists exactly the requested participants that are available in it,
\* in request order; the slots retained are the candidates whose score by
\* the rule is positive
C22_SlotScoreByRule ==
    FoundSlots =>
        /\ \A k \in 1..Len(last.result.slots) :
              LET slot == last.result.slots[k]
                  s == fromisoformat(slot.start_time)
                  e == AddMinutes(s, last.args.duration)
              IN  /\ s \in CandidateStarts
                  /\ slot.end_time = isoformat(e)
                  /\ slot.score = RuleScore(last.args.participants, s, e)
                  /\ slot.score > 0
                  /\ slot.available_participants
                        = SelectSeq(last.args.participants,
                                    LAMBDA p : ~Busy(p, s, e))
        /\ last.result.total_analyzed
              = Cardinality({s \in CandidateStarts :
                    RuleScore(last.args.participants, s,
                              AddMinutes(s, last.args.duration)) > 0})

\* slots returned for three participants, one with all of them available,
\* one with some, while some candidate was dropped
C22_Witness ==
    /\ FoundSlots
    /\ Len(last.args.participants) = 3
    /\ \E k \in 1..Len(last.result.slots) :
          Len(last.result.slots[k].available_participants) = 3
    /\ \E k \in 1..Len(last.result.slots) :
          Len(last.result.slots[k].available_participants) \in 1..2
    /\ last.result.total_analyzed > Len(last.result.slots)

-----------------------------------------------------------------------------
(* Properties of the schedule analysis *)

\* the stored meetings of the user that start in the trailing 30 days
RecentOf(user_id) ==
    {i \in 1..Len(meetings) :
        /\ InList(user_id, meetings[i].participants)
        /\ Instant(meetings[i].start_time) >= Instant(AddDays(now, -30))}

\* meeting i comes before meeting j when the meetings are sorted by start
\* time, meetings of equal start keeping the order of the store
StartsEarlier(i, j) ==
    \/ Instant(meetings[i].start_time) < Instant(meetings[j].start_time)
    \/ /\ Instant(meetings[i].start_time) = Instant(meetings[j].start_time)
       /\ i < j

\* j follows i without a meeting of the set between them
Consecutive(S, i, j) ==
    /\ StartsEarlier(i, j)
    /\ ~\E k \in S : StartsEarlier(i, k) /\ StartsEarlier(k, j)

\* the consecutive pairs with 0 <= b.start - a.end < min_break minutes
ShortBreaks(S, min_break) ==
    {p \in S \X S :
        /\ Consecutive(S, p[1], p[2])
        /\ SecondsBetween(meetings[p[2]].start_time, meetings[p[1]].end_time) >= 0
        /\ SecondsBetween(meetings[p[2]].start_time, meetings[p[1]].end_time)
             < 60 * min_break}

HasBackToBack ==
    /\ OptimizeSucceeded
    /\ "back_to_back_meetings" \in DOMAIN last.result.current_schedule_analysis

\* C23: the back-to-back count of optimize_meeting_schedule is the number of
\* consecutive pairs (a, b) of the user's meetings of the trailing 30 days,
\* sorted by start time, with 0 <= minutes(b.start - a.end) < the break of
\* the user's preferences
C23_BackToBackCount ==
    HasBackToBack =>
        last.result.current_schedule_analysis.back_to_back_meetings
            = Cardinality(ShortBreaks(
                  RecentOf(last.args.user_id),
                  user_preferences[last.args.user_id].break_time_between_meetings))

\* three meetings of which one consecutive pair overlaps and the other has a
\* break shorter than the minimum
C23_Witness ==
    /\ HasBackToBack
    /\ last.result.current_schedule_analysis.total_meetings = 3
    /\ last.result.current_schedule_analysis.back_to_back_meetings = 1
    /\ \E i, j \in RecentOf(last.args.user_id) :
          /\ Consecutive(RecentOf(last.args.user_id), i, j)
          /\ SecondsBetween(meetings[j].start_time, meetings[i].end_time) < 0

Advised ==
    \/ OptimizeSucceeded
    \/ last.op = "generate_schedule_optimizations"

RECURSIVE SumOfTypes(_, _, _)
SumOfTypes(recommendations, table, i) ==
    IF i > Len(recommendations) THEN 0
    ELSE table[recommendations[i].type] + SumOfTypes(recommendations, table, i + 1)

\* hours per week and percent of productivity by type of recommendation
WeeklyHours ==
    [meeting_distribution |-> 2, time_alignment |-> 1, buffer_time |-> 3,
     duration_optimization |-> 4, meeting_reduction |-> 5, time_blocking |-> 6]

Percentages ==
    [meeting_distribution |-> 15, time_alignment |-> 10, buffer_time |-> 20,
     duration_optimization |-> 25, meeting_reduction |-> 30,
     time_blocking |-> 35]

\* C24: the savings reported are time_saved = min(15, sum of the weekly
\* hours of the recommendations returned) and productivity_gain = min(50,
\* sum of their percentages), the focus time is 0.8 * time_saved (in
\* tenths: 8 * time_saved) and the monthly benefit 4 * time_saved; so
\* 6 <= time_saved <= 15 and 35 <= productivity_gain <= 50
C24_SavingsCapped ==
    Advised =>
        LET recommendations == last.result.optimization_recommendations
            savings == last.result.potential_time_savings
            hours == SumOfTypes(recommendations, WeeklyHours, 1)
            percent == SumOfTypes(recommendations, Percentages, 1)
        IN  /\ savings.time_saved_hours_per_week
                 = (IF hours < 15 THEN hours ELSE 15)
            /\ savings.productivity_gain_percent
                 = (IF percent < 50 THEN percent ELSE 50)
            /\ savings.focus_time_gained_hours_week
                 = 8 * savings.time_saved_hours_per_week
            /\ savings.estimated_monthly_benefit
                 = 4 * savings.time_saved_hours_per_week
            /\ savings.time_saved_hours_per_week \in 6..15
            /\ savings.productivity_gain_percent \in 35..50

\* recommendations whose weekly hours add up to more than the cap
C24_Witness ==
    /\ Advised
    /\ SumOfTypes(last.result.optimization_recommendations, WeeklyHours, 1) > 15
    /\ last.result.potential_time_savings.time_saved_hours_per_week = 15

-----------------------------------------------------------------------------
(* Properties of the agenda suggestions *)

\* the words of the templates, in the order of their priority
KeywordGroups ==
    <<{WordPlanning, WordStrategy}, {WordReview, WordRetrospective},
      {WordBrainstorm, WordIdeation}, {WordStandup, WordSync}>>

Occurs(group, text) == \E word \in group : Contains(text, word)

\* the first group with a word in the text, 5 when there is none
FirstGroup(text) ==
    IF \E g \in 1..4 : Occurs(KeywordGroups[g], text)
    THEN CHOOSE g \in 1..4 :
            /\ Occurs(KeywordGroups[g], text)
            /\ \A h \in 1..(g - 1) : ~Occurs(KeywordGroups[h], text)
    ELSE 5

\* the item names and types of the five templates
Templates ==
    <<  <<  <<"Current status review", "review">>,
            <<"Goal setting and priorities", "planning">>,
            <<"Resource allocation", "planning">>,
            <<"Risk assessment", "analysis">>  >>,
        <<  <<"Achievements and wins", "review">>,
            <<"Challenges and lessons learned", "review">>,
            <<"Process improvements", "improvement">>,
            <<"Action items for next period", "planning">>  >>,
        <<  <<"Problem definition", "framing">>,
            <<"Idea generation", "brainstorming">>,
            <<"Idea evaluation", "analysis">>,
            <<"Next steps selection", "decision">>  >>,
        <<  <<"Round-robin updates", "update">>,
            <<"Blocker resolution", "problem-solving">>,
            <<"Coordination needs", "coordination">>  >>,
        <<  <<"Main discussion topics", "discussion">>,
            <<"Decision points", "decision">>,
            <<"Information sharing", "information">>  >>  >>

OpeningPair ==
    <<  <<"Welcome and introductions", "opening">>,
        <<"Meeting objectives", "overview">>  >>

ClosingPair ==
    <<  <<"Action items and owners", "action">>,
        <<"Next meeting and follow-up", "closing">>  >>

\* the minutes of an item type
Minutes(type) ==
    IF type \in {"opening", "overview", "closing"} THEN 5
    ELSE IF type \in {"framing", "coordination", "information"} THEN 8
    ELSE IF type \in {"analysis", "problem-solving"} THEN 12
    ELSE IF type \in {"planning", "update", "discussion"} THEN 15
    ELSE IF type = "brainstorming" THEN 20
    ELSE 10

RECURSIVE MinutesOfItems(_, _)
MinutesOfItems(items, i) ==
    IF i > Len(items) THEN 0
    ELSE Minutes(items[i].type) + MinutesOfItems(items, i + 1)

AgendaSucceeded ==
    /\ last.op = "generate_agenda_suggestions"
    /\ last.result.success

NamesAndTypes(items) ==
    [i \in 1..Len(items) |-> <<items[i].item, items[i].type>>]

\* C25: the agenda of generate_agenda_suggestions is the opening pair, the
\* template of the first keyword group (planning/strategy, review/
\* retrospective, brainstorm/ideation, standup/sync, in this order) that
\* occurs in the lower-cased topic, or the generic template when none occurs,
\* and the closing pair; estimated_duration is the sum over all items of the
\* minutes of the item's type.
C25_AgendaByFirstKeywordGroup ==
    AgendaSucceeded =>
        /\ NamesAndTypes(last.result.suggested_agenda.items)
              = OpeningPair
                \o Templates[FirstGroup(Lower(last.args.meeting_topic))]
                \o ClosingPair
        /\ last.result.suggested_agenda.estimated_duration
              = MinutesOfItems(last.result.suggested_agenda.items, 1)

\* a topic with words of the first and of the last group, the agenda of the
\* first group
C25_Witness ==
    /\ AgendaSucceeded
    /\ Occurs(KeywordGroups[1], Lower(last.args.meeting_topic))
    /\ Occurs(KeywordGroups[4], Lower(last.args.meeting_topic))
    /\ last.result.suggested_agenda.items[3].item = "Current status review"
    /\ last.result.suggested_agenda.estimated_duration = 77

-----------------------------------------------------------------------------
(* Properties of failed calls *)

CreateFailed ==
    /\ last.op = "create_meeting"
    /\ ~last.result.success

\* C26: a create_meeting call that returns a failure leaves the meeting map
\* exactly as it was before the call, whatever the cause of the failure.
C26_FailedCreateStoresNothing ==
    [][(last'.op = "create_meeting" /\ ~last'.result.success)
          => meetings' = meetings]_vars

\* a failure result of create_meeting with the meeting of the call in the map
C26_FailedCreateStored ==
    /\ CreateFailed
    /\ Len(meetings) > 0
    /\ meetings[Len(meetings)].title = last.args.title
    /\ meetings[Len(meetings)].participants = last.args.participants
    /\ ~meetings[Len(meetings)].start_time.aware

-----------------------------------------------------------------------------
(* Properties of the placement of a meeting *)

\* preferences.get("preferred_time") is absent or empty
NoPreferredTime(preferences) ==
    \/ preferences.preferred_time = None
    \/ preferences.preferred_time[1] = EmptyText

\* the start times of the candidates of the 7-day scan
ScanStarts ==
    {UTC(d, 8 + (k - 1) \div 2, 30 * ((k - 1) % 2), 0) :
        d \in {x \in DateOf(now)..(DateOf(now) + 7) : x % 7 < 5}, k \in 1..20}

\* no participant takes part in a stored meeting that overlaps [s, e)
AllFree(participants, s, e) ==
    \A i \in 1..Len(participants) : ~Busy(participants[i], s, e)

\* C27: a create_meeting call without preferred_time, made when some
\* candidate slot of the 7-day scan has every participant available, stores
\* the meeting in a candidate slot in which every participant is available:
\* it overlaps no meeting a participant had before, and the result reports
\* has_conflicts = false.
C27_PlacedWhereAllAvailable ==
    [][(/\ last'.op = "create_meeting"
        /\ NoPreferredTime(last'.args.preferences)
        /\ \E s \in ScanStarts :
              AllFree(last'.args.participants, s,
                      AddMinutes(s, last'.args.duration)))
          => /\ last'.result.success
             /\ Len(meetings') = Len(meetings) + 1
             /\ meetings'[Len(meetings')].start_time \in ScanStarts
             /\ AllFree(last'.args.participants,
                        meetings'[Len(meetings')].start_time,
                        meetings'[Len(meetings')].end_time)
             /\ ~last'.result.conflicts.has_conflicts]_vars

\* a call without preferred_time has failed although a participant's only
\* meetings are on the first day of the scan
C27_NotPlaced ==
    /\ CreateFailed
    /\ NoPreferredTime(last.args.preferences)
    /\ last.result.error = "KeyError: slots"
    /\ \E s \in ScanStarts :
          /\ DateOf(s) > DateOf(now) + 1
          /\ AllFree(last.args.participants, s,
                     AddMinutes(s, last.args.duration))

-----------------------------------------------------------------------------
(* Properties of the number of slots *)

FindForUpToThree ==
    /\ last.op = "find_optimal_slots"
    /\ Len(last.args.participants) <= 3

\* C28: for a request with at most 3 participants every candidate of the
\* scan has a score of at least 20 and is retained, whatever the bookings of
\* the participants: total_analyzed is 20 times the number of weekdays in
\* [today, today + days_ahead], and the slot list is not empty when there is
\* such a weekday.
C28_AllCandidatesRetained ==
    FindForUpToThree =>
        /\ last.result.success
        /\ \A s \in CandidateStarts :
              RuleScore(last.args.participants, s,
                        AddMinutes(s, last.args.duration)) >= 20
        /\ \A k \in 1..Len(last.result.slots) : last.result.slots[k].score >= 20
        /\ last.result.total_analyzed = 20 * Cardinality(ScannedWeekdays)
        /\ ScannedWeekdays # {} => Len(last.result.slots) > 0

\* a search for up to three participants has failed
C28_NoSlotList ==
    /\ FindForUpToThree
    /\ Len(last.args.participants) > 0
    /\ ~last.result.success

-----------------------------------------------------------------------------
(* Properties of the range of the overall score *)

\* C29: the overall score that score_meeting_effectiveness writes lies in
\* [4.85, 8.45] and its rating is never 'Poor'; the score does not depend
\* on the score the meeting had before, so a second scoring of the same
\* meeting writes the same number and returns the same rounded score (a number
\* halfway between two hundredths is rounded by the side its double lies on).
C29_ScoreWithinBounds ==
    [][(last'.op = "score_meeting_effectiveness" /\ last'.result.success)
          => /\ AtLeast(StoredScore(meetings', last'.args.meeting_id)[1], 4850)
             /\ AtMost(StoredScore(meetings', last'.args.meeting_id)[1], 8450)
             /\ last'.result.effectiveness_rating # "Poor"
             /\ (/\ last.op = "score_meeting_effectiveness"
                 /\ last.result.success
                 /\ last.args.meeting_id = last'.args.meeting_id)
                => /\ StoredScore(meetings', last'.args.meeting_id)[1].milli
                        = StoredScore(meetings, last.args.meeting_id)[1].milli
                   /\ \/ last'.result.overall_score = last.result.overall_score
                      \/ StoredScore(meetings, last.args.meeting_id)[1].milli
                            % 10 = 5]_vars

\* a stored score above 8.45
C29_AboveRange ==
    /\ ScoreSucceeded
    /\ ScoredMeeting.effectiveness_score[1] = Float(8450, 1)

-----------------------------------------------------------------------------
(* Properties of a meeting once created *)

\* the i-th stored meeting was stored by a create_meeting call that returned
\* success: the conflict report on the meetings stored before it succeeded
CreatedWithSuccess(i) ==
    /\ i > SampleSize
    /\ detect_scheduling_conflicts(SubSeq(meetings, 1, i - 1),
                                   meetings[i].organizer,
                                   <<meetings[i].start_time,
                                     meetings[i].end_time>>).success

\* query intervals that overlap the meeting: the meeting's own interval, one
\* that ends a minute after its start and one that starts a minute before
\* its end
QueriesOver(m) ==
    { <<m.start_time, m.end_time>>,
      <<AddMinutes(m.start_time, -30), AddMinutes(m.start_time, 1)>>,
      <<AddMinutes(m.end_time, -1), AddMinutes(m.end_time, 30)>> }

Lists(report, id) ==
    /\ report.success
    /\ \E c \in 1..Len(report.conflicts) : report.conflicts[c].meeting_id = id

\* C30: in every state after create_meeting succeeded for participants P
\* and an interval that ends after it starts, every p in P is unavailable
\* for every query interval that overlaps it, and detect_scheduling_conflicts
\* for p and that interval lists the meeting; no later operation changes
\* that.
C30_StaysUnavailable ==
    \A i \in 1..Len(meetings) :
        (CreatedWithSuccess(i) /\ Lt(meetings[i].start_time, meetings[i].end_time))
        => \A k \in 1..Len(meetings[i].participants), q \in QueriesOver(meetings[i]) :
              /\ is_participant_available(meetings, meetings[i].participants[k],
                                          q[1], q[2]) = "False"
              /\ Lists(detect_scheduling_conflicts(
                           meetings, meetings[i].participants[k], q),
                       meetings[i].id)

\* a meeting with an offset, created with success, that a conflict report
\* for its organizer and its own interval does not list
C30_NotListed ==
    \E i \in 1..Len(meetings) :
        /\ CreatedWithSuccess(i)
        /\ meetings[i].start_time.aware
        /\ Lt(meetings[i].start_time, meetings[i].end_time)
        /\ ~Lists(detect_scheduling_conflicts(
                      meetings, meetings[i].organizer,
                      <<meetings[i].start_time, meetings[i].end_time>>),
                  meetings[i].id)

====
